---- MODULE Spec2Model ----
(***************************************************************************)
(* Model of mods-mcp: the program codec (src/src/programs.js), the session *)
(* state reader and driver (src/src/browser.js) and the tool router        *)
(* (src/src/server.js).                                                    *)
(*                                                                         *)
(* A JavaScript string is a sequence of one-character strings.  A          *)
(* JavaScript value is a record [t, s, kv]: t is its type tag, s the text  *)
(* of a string or number, kv the own properties of an object in insertion  *)
(* order (a sequence of [k, v] records).                                   *)
(***************************************************************************)
EXTENDS Integers, Sequences, FiniteSets, TLC

(***************************************************************************)
(* JavaScript values                                                       *)
(***************************************************************************)
VStr(s) == [t |-> "str", s |-> s, kv |-> <<>>]
VNum(s) == [t |-> "num", s |-> s, kv |-> <<>>]
VObj(kv) == [t |-> "obj", s |-> <<>>, kv |-> kv]
VUndef == [t |-> "undef", s |-> <<>>, kv |-> <<>>]
VNull == [t |-> "null", s |-> <<>>, kv |-> <<>>]
\* a function object, such as the members of Object.prototype
VFun == [t |-> "fun", s |-> <<>>, kv |-> <<>>]

Prop(k, v) == [k |-> k, v |-> v]

\* an array: its elements are the values of kv, in order
Elem(v) == Prop(<<>>, v)
VArr(kv) == [t |-> "arr", s |-> <<>>, kv |-> kv]

\* the texts the model writes more than once
SUndefined == <<"u","n","d","e","f","i","n","e","d">>
SNull == <<"n","u","l","l">>
SObjectObject == <<"[","o","b","j","e","c","t"," ","O","b","j","e","c","t","]">>
SId == <<"i","d">>
SType == <<"t","y","p","e">>
SName == <<"n","a","m","e">>
SSource == <<"s","o","u","r","c","e">>
SDest == <<"d","e","s","t">>
SOutputs == <<"o","u","t","p","u","t","s">>
SInputs == <<"i","n","p","u","t","s">>

\* members every plain object inherits from Object.prototype (those the model
\* can name; all of them are functions)
ObjectPrototypeKeys ==
  { <<"v","a","l","u","e","O","f">>,
    <<"t","o","S","t","r","i","n","g">>,
    <<"c","o","n","s","t","r","u","c","t","o","r">> }

Digits == {"0","1","2","3","4","5","6","7","8","9"}

\* the last index i with kv[i].k = k, or 0
RECURSIVE IndexOfKey(_, _, _)
IndexOfKey(kv, k, i) ==
  IF i = 0 THEN 0
  ELSE IF kv[i].k = k THEN i
  ELSE IndexOfKey(kv, k, i - 1)

HasOwn(kv, k) == IndexOfKey(kv, k, Len(kv)) # 0

\* obj[k] on a plain object ({} or the result of JSON.parse): the own property,
\* else the member inherited from Object.prototype, else undefined
GetProp(kv, k) ==
  IF HasOwn(kv, k) THEN kv[IndexOfKey(kv, k, Len(kv))].v
  ELSE IF k \in ObjectPrototypeKeys THEN VFun
  ELSE VUndef

\* obj[k] = v: an existing key keeps its place, a new key is appended
SetProp(kv, k, v) ==
  IF HasOwn(kv, k)
  THEN [kv EXCEPT ![IndexOfKey(kv, k, Len(kv))] = Prop(k, v)]
  ELSE Append(kv, Prop(k, v))

\* v.k for a value v that is not null or undefined (those throw a TypeError)
Member(v, k) ==
  IF v.t = "obj" THEN GetProp(v.kv, k) ELSE VUndef

\* String(v), as property keys, getElementById arguments, + and JSON.parse see it
RECURSIVE ToStr(_)
RECURSIVE ArrToStr(_, _)
\* Array.prototype.toString: the elements joined by commas, null and undefined empty
ArrToStr(kv, i) ==
  IF i > Len(kv) THEN <<>>
  ELSE (IF i = 1 THEN <<>> ELSE <<",">>)
       \o (IF kv[i].v.t \in {"null", "undef"} THEN <<>> ELSE ToStr(kv[i].v))
       \o ArrToStr(kv, i + 1)

ToStr(v) ==
  CASE v.t = "str" -> v.s
    [] v.t = "num" -> v.s
    [] v.t = "null" -> SNull
    [] v.t = "undef" -> SUndefined
    [] v.t = "obj" -> SObjectObject
    [] v.t = "arr" -> ArrToStr(v.kv, 1)
    [] OTHER -> <<"f">>

\* !v is false
Truthy(v) ==
  CASE v.t = "str" -> v.s # <<>>
    [] v.t = "num" -> v.s # <<"0">>
    [] v.t \in {"null", "undef"} -> FALSE
    [] OTHER -> TRUE

(***************************************************************************)
(* String.prototype.split / includes                                       *)
(***************************************************************************)
\* s.split(c) for a one-character separator c
RECURSIVE SplitFrom(_, _, _, _)
SplitFrom(s, c, i, cur) ==
  IF i > Len(s) THEN <<cur>>
  ELSE IF s[i] = c THEN <<cur>> \o SplitFrom(s, c, i + 1, <<>>)
  ELSE SplitFrom(s, c, i + 1, Append(cur, s[i]))

Split(s, c) == SplitFrom(s, c, 1, <<>>)

\* parts.join(c)
RECURSIVE Join(_, _)
Join(parts, c) ==
  IF parts = <<>> THEN <<>>
  ELSE IF Len(parts) = 1 THEN parts[1]
  ELSE parts[1] \o <<c>> \o Join(Tail(parts), c)

StartsAt(s, sub, i) ==
  /\ i + Len(sub) - 1 <= Len(s)
  /\ \A j \in 1..Len(sub) : s[i + j - 1] = sub[j]

\* s.includes(sub)
Includes(s, sub) == \E i \in 1..(Len(s) + 1) : StartsAt(s, sub, i)

(***************************************************************************)
(* JSON.stringify                                                          *)
(***************************************************************************)
QuoteChar == "\""
BackslashChar == "\\"

EscapeChar(c) ==
  IF c = QuoteChar THEN <<BackslashChar, QuoteChar>>
  ELSE IF c = BackslashChar THEN <<BackslashChar, BackslashChar>>
  ELSE <<c>>

\* the characters lo..hi of s, escaped (halving keeps the evaluation shallow)
RECURSIVE EscapeRange(_, _, _)
EscapeRange(s, lo, hi) ==
  IF lo > hi THEN <<>>
  ELSE IF lo = hi THEN EscapeChar(s[lo])
  ELSE LET mid == (lo + hi) \div 2
       IN  EscapeRange(s, lo, mid) \o EscapeRange(s, mid + 1, hi)

\* JSON.stringify of a string (the model's alphabet holds no control characters)
QuoteJSON(s) == <<QuoteChar>> \o EscapeRange(s, 1, Len(s)) \o <<QuoteChar>>

\* a property whose value is undefined or a function is left out of the text
Serializable(v) == v.t \notin {"undef", "fun"}

RECURSIVE Stringify(_)
RECURSIVE StringifyProps(_, _, _)
RECURSIVE StringifyElems(_, _)
\* an array element that is undefined or a function is written as null
StringifyElems(kv, i) ==
  IF i > Len(kv) THEN <<>>
  ELSE (IF i = 1 THEN <<>> ELSE <<",">>)
       \o (IF Serializable(kv[i].v) THEN Stringify(kv[i].v) ELSE SNull)
       \o StringifyElems(kv, i + 1)

StringifyProps(kv, i, first) ==
  IF i > Len(kv) THEN <<>>
  ELSE IF ~Serializable(kv[i].v) THEN StringifyProps(kv, i + 1, first)
  ELSE (IF first THEN <<>> ELSE <<",">>)
       \o QuoteJSON(kv[i].k) \o <<":">> \o Stringify(kv[i].v)
       \o StringifyProps(kv, i + 1, FALSE)

Stringify(v) ==
  CASE v.t = "str" -> QuoteJSON(v.s)
    [] v.t = "num" -> v.s
    [] v.t = "null" -> SNull
    [] v.t = "obj" -> <<"{">> \o StringifyProps(v.kv, 1, TRUE) \o <<"}">>
    [] v.t = "arr" -> <<"[">> \o StringifyElems(v.kv, 1) \o <<"]">>
    [] OTHER -> SUndefined

(***************************************************************************)
(* JSON.parse, on texts of strings, numbers, null, objects and arrays       *)
(* without white space.  A parse step yields [ok, v, i]: i is the next     *)
(* position.                                                               *)
(***************************************************************************)
PFail == [ok |-> FALSE, v |-> VUndef, i |-> 0]
POk(v, i) == [ok |-> TRUE, v |-> v, i |-> i]

\* the number of backslashes that stand immediately before position j
RECURSIVE BackslashRun(_, _)
BackslashRun(t, j) ==
  IF j > 1 /\ t[j - 1] = BackslashChar THEN 1 + BackslashRun(t, j - 1) ELSE 0

\* inside a string literal: position j holds the quote that ends it
ClosesString(t, j) == t[j] = QuoteChar /\ BackslashRun(t, j) % 2 = 0

\* inside a string literal: position k holds a backslash that starts an escape
StartsEscape(t, k) == t[k] = BackslashChar /\ BackslashRun(t, k) % 2 = 0

\* the characters lo..hi of a string literal, the escaping backslashes dropped
RECURSIVE UnescapeRange(_, _, _)
UnescapeRange(t, lo, hi) ==
  IF lo > hi THEN <<>>
  ELSE IF lo = hi THEN (IF StartsEscape(t, lo) THEN <<>> ELSE <<t[lo]>>)
  ELSE LET mid == (lo + hi) \div 2
       IN  UnescapeRange(t, lo, mid) \o UnescapeRange(t, mid + 1, hi)

\* a string literal at position i: up to the first closing quote; an escape
\* other than \" and \\ is a SyntaxError (the model writes none of \/ \b \f
\* \n \r \t \u)
ParseString(t, i) ==
  IF ~(i <= Len(t) /\ t[i] = QuoteChar) THEN PFail
  ELSE IF ~(\E j \in (i + 1)..Len(t) : ClosesString(t, j)) THEN PFail
  ELSE LET end == CHOOSE j \in (i + 1)..Len(t) :
                    /\ ClosesString(t, j)
                    /\ \A k \in (i + 1)..(j - 1) : ~ClosesString(t, k)
       IN  IF \E k \in (i + 1)..(end - 1) :
                 StartsEscape(t, k) /\ t[k + 1] \notin {QuoteChar, BackslashChar}
           THEN PFail
           ELSE POk(VStr(UnescapeRange(t, i + 1, end - 1)), end + 1)

\* the end of the run of digits that starts at i
RECURSIVE DigitsEnd(_, _)
DigitsEnd(t, i) ==
  IF i <= Len(t) /\ t[i] \in Digits THEN DigitsEnd(t, i + 1) ELSE i

\* 0 | [1-9][0-9]*, then an optional fraction
ParseNumber(t, i) ==
  LET intEnd == IF t[i] = "0" THEN i + 1 ELSE DigitsEnd(t, i)
      hasFrac == intEnd <= Len(t) /\ t[intEnd] = "."
      fracEnd == DigitsEnd(t, intEnd + 1)
  IN  IF ~hasFrac THEN POk(VNum(SubSeq(t, i, intEnd - 1)), intEnd)
      ELSE IF fracEnd = intEnd + 1 THEN PFail
      ELSE POk(VNum(SubSeq(t, i, fracEnd - 1)), fracEnd)

RECURSIVE ParseValue(_, _)
RECURSIVE ParseMembers(_, _, _)
RECURSIVE ParseElems(_, _, _)
\* array elements from position i (at a value)
ParseElems(t, i, kv) ==
  LET v == ParseValue(t, i)
  IN  IF ~v.ok THEN PFail
      ELSE IF v.i > Len(t) THEN PFail
      ELSE IF t[v.i] = "]" THEN POk(VArr(Append(kv, Elem(v.v))), v.i + 1)
      ELSE IF t[v.i] = "," THEN ParseElems(t, v.i + 1, Append(kv, Elem(v.v)))
      ELSE PFail

\* members from position i (at a key); a repeated key keeps its last value
ParseMembers(t, i, kv) ==
  LET k == ParseString(t, i)
  IN  IF ~k.ok THEN PFail
      ELSE IF ~(k.i <= Len(t) /\ t[k.i] = ":") THEN PFail
      ELSE LET v == ParseValue(t, k.i + 1)
           IN  IF ~v.ok THEN PFail
               ELSE IF v.i > Len(t) THEN PFail
               ELSE IF t[v.i] = "}"
                    THEN POk(VObj(SetProp(kv, k.v.s, v.v)), v.i + 1)
               ELSE IF t[v.i] = ","
                    THEN ParseMembers(t, v.i + 1, SetProp(kv, k.v.s, v.v))
               ELSE PFail

ParseValue(t, i) ==
  IF i > Len(t) THEN PFail
  ELSE IF t[i] = QuoteChar THEN ParseString(t, i)
  ELSE IF t[i] \in Digits THEN ParseNumber(t, i)
  ELSE IF StartsAt(t, SNull, i) THEN POk(VNull, i + 4)
  ELSE IF t[i] = "{"
       THEN IF i + 1 <= Len(t) /\ t[i + 1] = "}" THEN POk(VObj(<<>>), i + 2)
            ELSE ParseMembers(t, i + 1, <<>>)
  ELSE IF t[i] = "["
       THEN IF i + 1 <= Len(t) /\ t[i + 1] = "]" THEN POk(VArr(<<>>), i + 2)
            ELSE ParseElems(t, i + 1, <<>>)
  ELSE PFail

\* JSON.parse(text): [ok |-> FALSE] is a SyntaxError
ParseJSON(t) ==
  LET r == ParseValue(t, 1)
  IN  IF r.ok /\ r.i = Len(t) + 1 THEN [ok |-> TRUE, v |-> r.v]
      ELSE [ok |-> FALSE, v |-> VUndef]

\* JSON.parse(v) of any value: the argument is converted to a string first
ParseJSONValue(v) == ParseJSON(ToStr(v))

(***************************************************************************)
(* Storage: the module files under MODS_DIR                                *)
(***************************************************************************)
PathA == <<"a",".","j","s">>
PathB == <<"b",".","j","s">>
PathN == <<"n",".","j","s">>
PathD == <<"d",".","j","s">>
PathX == <<"x",".","j","s">>

\* var name = 'a'
SourceA == <<"v","a","r"," ","n","a","m","e"," ","="," ","'","a","'">>
\* var  name="b"
SourceB == <<"v","a","r"," "," ","n","a","m","e","=","\"","b","\"">>
\* var name = 'a.b'
SourceD == <<"v","a","r"," ","n","a","m","e"," ","="," ","'","a",".","b","'">>
\* var names = 1 : a module file that declares no name
SourceN == <<"v","a","r"," ","n","a","m","e","s"," ","="," ","1">>

\* the paths a caller may pass; PathX names no file
ModulePaths == {PathA, PathB, PathD, PathN, PathX}
Readable(path) == path \in {PathA, PathB, PathD, PathN}

\* readFile(join(MODS_DIR, path), 'utf-8') of a readable path
FileText(path) ==
  CASE path = PathA -> SourceA
    [] path = PathB -> SourceB
    [] path = PathD -> SourceD
    [] OTHER -> SourceN

(***************************************************************************)
(* source.match(/var\s+name\s*=\s*['"]([^'"]+)['"]/)                       *)
(***************************************************************************)
WhiteSpace == {" ", "\t", "\n"}
QuoteMarks == {"'", "\""}

RECURSIVE SpaceEnd(_, _)
SpaceEnd(t, i) ==
  IF i <= Len(t) /\ t[i] \in WhiteSpace THEN SpaceEnd(t, i + 1) ELSE i

RECURSIVE NonQuoteEnd(_, _)
NonQuoteEnd(t, i) ==
  IF i <= Len(t) /\ t[i] \notin QuoteMarks THEN NonQuoteEnd(t, i + 1) ELSE i

\* the match that starts at position i: [ok, name]
NameMatchAt(t, i) ==
  LET a == i + 3
      b == SpaceEnd(t, a)
      c == SpaceEnd(t, b + 4)
      d == SpaceEnd(t, c + 1)
      e == NonQuoteEnd(t, d + 1)
  IN  IF /\ StartsAt(t, <<"v","a","r">>, i)
         /\ b > a
         /\ StartsAt(t, SName, b)
         /\ c <= Len(t) /\ t[c] = "="
         /\ d <= Len(t) /\ t[d] \in QuoteMarks
         /\ e > d + 1
         /\ e <= Len(t) /\ t[e] \in QuoteMarks
      THEN [ok |-> TRUE, name |-> SubSeq(t, d + 1, e - 1)]
      ELSE [ok |-> FALSE, name |-> <<>>]

\* the leftmost match
RECURSIVE NameMatchFrom(_, _)
NameMatchFrom(t, i) ==
  IF i > Len(t) THEN [ok |-> FALSE, name |-> <<>>]
  ELSE IF NameMatchAt(t, i).ok THEN NameMatchAt(t, i)
  ELSE NameMatchFrom(t, i + 1)

NameMatch(t) == NameMatchFrom(t, 1)

(***************************************************************************)
(* createProgram (programs.js)                                             *)
(***************************************************************************)
SDefinition == <<"d","e","f","i","n","i","t","i","o","n">>
STop == <<"t","o","p">>
SLeft == <<"l","e","f","t">>
SFilename == <<"f","i","l","e","n","a","m","e">>
SModules == <<"m","o","d","u","l","e","s">>
SLinks == <<"l","i","n","k","s">>
S100 == <<"1","0","0">>

\* the record stored under a module's id
ModuleRecord(source, modPath) ==
  VObj(<< Prop(SDefinition, VStr(source)),
          Prop(STop, VStr(S100)),
          Prop(SLeft, VStr(S100)),
          Prop(SFilename, VStr(modPath)),
          Prop(SInputs, VObj(<<>>)),
          Prop(SOutputs, VObj(<<>>)) >>)

\* the first loop, from module i on.  rnd[i] is what Math.random().toString()
\* returns for module i.  ok = FALSE: readFile rejected.
RECURSIVE ReadModules(_, _, _, _, _)
ReadModules(modulePaths, rnd, i, modules, nameToId) ==
  IF i > Len(modulePaths)
  THEN [ok |-> TRUE, modules |-> modules, nameToId |-> nameToId]
  ELSE IF ~Readable(modulePaths[i])
  THEN [ok |-> FALSE, modules |-> modules, nameToId |-> nameToId]
  ELSE LET source == FileText(modulePaths[i])
           id == rnd[i]
           nameMatch == NameMatch(source)
       IN  ReadModules(modulePaths, rnd, i + 1,
                       SetProp(modules, id, ModuleRecord(source, modulePaths[i])),
                       IF nameMatch.ok
                       THEN SetProp(nameToId, nameMatch.name, VStr(id))
                       ELSE nameToId)

\* const [module, port] = text.split('.')
LinkModule(text) == Split(text, ".")[1]
LinkPort(text) ==
  IF Len(Split(text, ".")) >= 2 THEN VStr(Split(text, ".")[2]) ELSE VUndef

\* one element of programLinks
EncodeLink(sourceId, fromPort, destId, toPort) ==
  Stringify(VObj(<<
    Prop(SSource, VStr(Stringify(VObj(<<
      Prop(SId, sourceId), Prop(SType, VStr(SOutputs)), Prop(SName, fromPort) >>)))),
    Prop(SDest, VStr(Stringify(VObj(<<
      Prop(SId, destId), Prop(SType, VStr(SInputs)), Prop(SName, toPort) >>)))) >>))

\* the name the thrown Error carries
LinkErrorName(sourceId, fromModule, toModule) ==
  IF ~Truthy(sourceId) THEN fromModule ELSE toModule

\* the second loop, from link i on.  ok = FALSE: the Error was thrown.
RECURSIVE BuildLinks(_, _, _, _)
BuildLinks(links, nameToId, i, programLinks) ==
  IF i > Len(links)
  THEN [ok |-> TRUE, links |-> programLinks, named |-> <<>>]
  ELSE LET fromModule == LinkModule(links[i].from)
           toModule == LinkModule(links[i].to)
           sourceId == GetProp(nameToId, fromModule)
           destId == GetProp(nameToId, toModule)
       IN  IF ~Truthy(sourceId) \/ ~Truthy(destId)
           THEN [ok |-> FALSE, links |-> <<>>,
                 named |-> LinkErrorName(sourceId, fromModule, toModule)]
           ELSE BuildLinks(links, nameToId, i + 1,
                  Append(programLinks,
                         Elem(VStr(EncodeLink(sourceId, LinkPort(links[i].from),
                                              destId, LinkPort(links[i].to))))))

\* createProgram that rejects a build in which some module's name is not
\* registered under an id of its own (no name declared, or a name declared twice)
CreateProgramStrict(modulePaths, links, rnd) ==
  LET read == ReadModules(modulePaths, rnd, 1, <<>>, <<>>)
      built == BuildLinks(links, read.nameToId, 1, <<>>)
  IN  IF ~read.ok
      THEN [ok |-> FALSE, error |-> "ENOENT", named |-> <<>>, doc |-> VUndef]
      ELSE IF ~built.ok \/ Len(read.nameToId) # Len(modulePaths)
      THEN [ok |-> FALSE, error |-> "ModuleNotFound", named |-> built.named,
            doc |-> VUndef]
      ELSE [ok |-> TRUE, error |-> "", named |-> <<>>,
            doc |-> VObj(<< Prop(SModules, VObj(read.modules)),
                            Prop(SLinks, VArr(built.links)) >>)]

\* createProgram(modulePaths, links): ok with the document, or the error thrown.
\* error "ENOENT": readFile rejected; "ModuleNotFound": the Error of the link
\* loop, named its module name.
CreateProgram(modulePaths, links, rnd) ==
  LET read == ReadModules(modulePaths, rnd, 1, <<>>, <<>>)
      built == BuildLinks(links, read.nameToId, 1, <<>>)
  IN  IF ~read.ok
      THEN [ok |-> FALSE, error |-> "ENOENT", named |-> <<>>, doc |-> VUndef]
      ELSE IF ~built.ok
      THEN [ok |-> FALSE, error |-> "ModuleNotFound", named |-> built.named,
            doc |-> VUndef]
      ELSE [ok |-> TRUE, error |-> "", named |-> <<>>,
            doc |-> VObj(<< Prop(SModules, VObj(read.modules)),
                            Prop(SLinks, VArr(built.links)) >>)]

(***************************************************************************)
(* The rendered page.  page = [hasModules, modules, hasSvg, hasLinks,      *)
(* links]: the children of #modules (module nodes) and the ids of the      *)
(* children of the links group of #svg.  A module node is [id, name,       *)
(* definition, top, left, filename, inputs, buttons]: id is <<>> for a     *)
(* child without id (a text node, a decorative element), name .. filename  *)
(* are the dataset members (VUndef when absent), inputs the input elements *)
(* in document order, each [hasPrev, prevText, type, value, checked],      *)
(* buttons the textContent of the button elements.                         *)
(***************************************************************************)
Control(hasPrev, prevText, type, value, checked) ==
  [hasPrev |-> hasPrev, prevText |-> prevText, type |-> type, value |-> value,
   checked |-> checked]

Node(id, name, definition, top, left, filename, inputs, buttons) ==
  [id |-> id, name |-> name, definition |-> definition, top |-> top,
   left |-> left, filename |-> filename, inputs |-> inputs, buttons |-> buttons]

RECURSIVE TrimStart(_)
TrimStart(s) ==
  IF s # <<>> /\ Head(s) \in WhiteSpace THEN TrimStart(Tail(s)) ELSE s

RECURSIVE TrimEnd(_)
TrimEnd(s) ==
  IF s # <<>> /\ s[Len(s)] \in WhiteSpace
  THEN TrimEnd(SubSeq(s, 1, Len(s) - 1)) ELSE s

\* s.trim()
Trim(s) == TrimEnd(TrimStart(s))

\* the index of the first module node with this id, or 0
RECURSIVE NodeIndex(_, _, _)
NodeIndex(nodes, id, i) ==
  IF i > Len(nodes) THEN 0
  ELSE IF nodes[i].id = id THEN i
  ELSE NodeIndex(nodes, id, i + 1)

\* the ids of the page's own elements, which carry no dataset.name
PageElementIds == { SModules, <<"s","v","g">>, SLinks }

\* document.getElementById(id): [found, name] with name the element's
\* dataset.name.  (Link elements, whose ids are JSON texts, are not looked up.)
GetElementById(pg, id) ==
  IF id = <<>> THEN [found |-> FALSE, name |-> VUndef, index |-> 0]
  ELSE IF pg.hasModules /\ NodeIndex(pg.modules, id, 1) # 0
  THEN [found |-> TRUE, name |-> pg.modules[NodeIndex(pg.modules, id, 1)].name,
        index |-> NodeIndex(pg.modules, id, 1)]
  ELSE IF id \in PageElementIds
  THEN [found |-> TRUE, name |-> VUndef, index |-> 0]
  ELSE [found |-> FALSE, name |-> VUndef, index |-> 0]

(***************************************************************************)
(* getProgramState (browser.js): the connection map                        *)
(***************************************************************************)
\* the text of the separator in a port descriptor: a space, the arrow
\* character (written -> here) and a space
SArrow == <<" ", "->", " ">>

NoConnections == [inputs |-> <<>>, outputs |-> <<>>]

\* if (!connections[key]) connections[key] = { inputs: [], outputs: [] }
\* (a key inherited from Object.prototype reads as a function, which is truthy)
EnsureConnections(connections, key) ==
  IF HasOwn(connections, key) \/ key \in ObjectPrototypeKeys THEN connections
  ELSE Append(connections, Prop(key, NoConnections))

\* an outputs.push that merges a record equal to one already held
PushOutputMerged(connections, key, rec) ==
  LET i == IndexOfKey(connections, key, Len(connections))
  IN  IF \E j \in 1..Len(connections[i].v.outputs) : connections[i].v.outputs[j] = rec
      THEN connections
      ELSE [connections EXCEPT ![i].v.outputs = Append(@, rec)]

\* connections[key].outputs.push(rec) / connections[key].inputs.push(rec)
PushOutput(connections, key, rec) ==
  LET i == IndexOfKey(connections, key, Len(connections))
  IN  [connections EXCEPT ![i].v.outputs = Append(@, rec)]

PushInput(connections, key, rec) ==
  LET i == IndexOfKey(connections, key, Len(connections))
  IN  [connections EXCEPT ![i].v.inputs = Append(@, rec)]

\* the record pushed for one end of a link
ConnectionRecord(peerName, peerId, sourceName, destName) ==
  [peer |-> peerName, peerId |-> peerId,
   port |-> ToStr(sourceName) \o SArrow \o ToStr(destName)]

\* reading a member of null or undefined throws a TypeError
Throws(v) == v.t \in {"null", "undef"}

\* the property key and the readable name of one end of a link
EndKey(end) == ToStr(Member(end, SId))

EndName(pg, end) ==
  IF GetElementById(pg, EndKey(end)).found
  THEN GetElementById(pg, EndKey(end)).name
  ELSE Member(end, SId)

\* connections[dest.id].inputs.push(...): a TypeError when connections[dest.id]
\* is the inherited function, after the output record was pushed
PushDest(pg, connections, source, dest) ==
  IF ~HasOwn(connections, EndKey(dest)) THEN connections
  ELSE PushInput(connections, EndKey(dest),
         ConnectionRecord(EndName(pg, source), Member(source, SId),
                          Member(source, SName), Member(dest, SName)))

\* connections[source.id].outputs.push(...), then the input record
PushEnds(pg, connections, source, dest) ==
  IF ~HasOwn(connections, EndKey(source)) THEN connections
  ELSE PushDest(pg,
         PushOutput(connections, EndKey(source),
           ConnectionRecord(EndName(pg, dest), Member(dest, SId),
                            Member(source, SName), Member(dest, SName))),
         source, dest)

\* the try block from the two inner parses on: source and dest are the
\* results of JSON.parse(linkData.source) and JSON.parse(linkData.dest).
\* Whatever the block did before an exception stays done: source.id of a null
\* source throws before anything is written, dest.id of a null dest throws
\* after connections[source.id] was created.
ReadEnds(pg, connections, source, dest) ==
  IF ~source.ok \/ ~dest.ok \/ Throws(source.v) THEN connections
  ELSE IF Throws(dest.v) THEN EnsureConnections(connections, EndKey(source.v))
  ELSE PushEnds(pg,
         EnsureConnections(EnsureConnections(connections, EndKey(source.v)),
                           EndKey(dest.v)),
         source.v, dest.v)

\* the try block from linkData = JSON.parse(link.id) on
ReadLinkData(pg, connections, linkData) ==
  IF ~linkData.ok \/ Throws(linkData.v) THEN connections
  ELSE ReadEnds(pg, connections,
                ParseJSONValue(Member(linkData.v, SSource)),
                ParseJSONValue(Member(linkData.v, SDest)))

\* the body of the overlay loop for one link id: the connection map after it
ReadLink(pg, connections, linkId) ==
  IF linkId = <<>> THEN connections
  ELSE ReadLinkData(pg, connections, ParseJSON(linkId))

\* the overlay loop, from link l on
\* the overlay loop with the try around the whole loop: the first entry that
\* is no JSON ends it
RECURSIVE ReadLinksAbort(_, _, _)
ReadLinksAbort(pg, connections, l) ==
  IF l > Len(pg.links) THEN connections
  ELSE IF pg.links[l] # <<>> /\ ~ParseJSON(pg.links[l]).ok THEN connections
  ELSE ReadLinksAbort(pg, ReadLink(pg, connections, pg.links[l]), l + 1)

RECURSIVE ReadLinks(_, _, _)
ReadLinks(pg, connections, l) ==
  IF l > Len(pg.links) THEN connections
  ELSE ReadLinks(pg, ReadLink(pg, connections, pg.links[l]), l + 1)

\* the connection map built before the modules are read
ConnectionMap(pg) ==
  IF pg.hasSvg /\ pg.hasLinks THEN ReadLinks(pg, <<>>, 1) ELSE <<>>

(***************************************************************************)
(* getProgramState (browser.js): the modules                               *)
(***************************************************************************)
SCheckbox == <<"c","h","e","c","k","b","o","x">>
STrue == <<"t","r","u","e">>
SFalse == <<"f","a","l","s","e">>

\* the label getProgramState derives for an input element
StateLabel(input) ==
  IF input.hasPrev /\ input.prevText # <<>> THEN Trim(input.prevText) ELSE <<>>

\* params with the raw value of every control
ReadParamRaw(input) ==
  [label |-> StateLabel(input), value |-> input.value, type |-> input.type]

\* one element of params
ReadParam(input) ==
  IF input.type = SCheckbox
  THEN [label |-> StateLabel(input),
        value |-> IF input.checked THEN STrue ELSE SFalse,
        type |-> SCheckbox]
  ELSE [label |-> StateLabel(input), value |-> input.value, type |-> input.type]

\* mod.dataset.name || ''
StateName(mod) == IF Truthy(mod.name) THEN ToStr(mod.name) ELSE <<>>

\* the entry pushed for a module node with an id.  connections[id] inherited
\* from Object.prototype has no inputs and no outputs: both fields undefined.
ReadModule(mod, connections) ==
  [id |-> mod.id,
   name |-> StateName(mod),
   params |-> [i \in 1..Len(mod.inputs) |-> ReadParam(mod.inputs[i])],
   buttons |-> [i \in 1..Len(mod.buttons) |-> Trim(mod.buttons[i])],
   connected |-> HasOwn(connections, mod.id),
   connectedFrom |-> IF HasOwn(connections, mod.id)
                     THEN GetProp(connections, mod.id).inputs ELSE <<>>,
   connectedTo |-> IF HasOwn(connections, mod.id)
                   THEN GetProp(connections, mod.id).outputs ELSE <<>>]

\* the module loop without the test of the child's id
RECURSIVE ReadModulesAll(_, _, _)
ReadModulesAll(pg, connections, c) ==
  IF c > Len(pg.modules) THEN <<>>
  ELSE <<ReadModule(pg.modules[c], connections)>>
       \o ReadModulesAll(pg, connections, c + 1)

\* the module loop, from child c on
RECURSIVE ReadModulesFrom(_, _, _)
ReadModulesFrom(pg, connections, c) ==
  IF c > Len(pg.modules) THEN <<>>
  ELSE IF pg.modules[c].id = <<>> THEN ReadModulesFrom(pg, connections, c + 1)
  ELSE <<ReadModule(pg.modules[c], connections)>>
       \o ReadModulesFrom(pg, connections, c + 1)

\* getProgramState() on a launched browser
GetProgramState(pg) ==
  IF ~pg.hasModules THEN <<>>
  ELSE ReadModulesFrom(pg, ConnectionMap(pg), 1)

(***************************************************************************)
(* extractProgramState and injectProgram (browser.js)                      *)
(***************************************************************************)
\* mod.dataset.x || fallback
DatasetOr(v, fallback) == IF Truthy(v) THEN VStr(ToStr(v)) ELSE VStr(fallback)

\* prog.modules[idnumber] = {...}
ExtractRecord(mod) ==
  VObj(<< Prop(SDefinition, DatasetOr(mod.definition, <<>>)),
          Prop(STop, DatasetOr(mod.top, <<"0">>)),
          Prop(SLeft, DatasetOr(mod.left, <<"0">>)),
          Prop(SFilename, DatasetOr(mod.filename, <<>>)),
          Prop(SInputs, VObj(<<>>)),
          Prop(SOutputs, VObj(<<>>)) >>)

RECURSIVE ExtractModules(_, _, _)
ExtractModules(nodes, c, modules) ==
  IF c > Len(nodes) THEN modules
  ELSE IF nodes[c].id = <<>> THEN ExtractModules(nodes, c + 1, modules)
  ELSE ExtractModules(nodes, c + 1,
                      SetProp(modules, nodes[c].id, ExtractRecord(nodes[c])))

\* ExtractLinks with the loop bound off by one (l < childNodes.length - 1)
RECURSIVE ExtractLinksShort(_, _)
ExtractLinksShort(links, l) ==
  IF l >= Len(links) THEN <<>>
  ELSE (IF links[l] # <<>> THEN <<Elem(VStr(links[l]))>> ELSE <<>>)
       \o ExtractLinksShort(links, l + 1)

RECURSIVE ExtractLinks(_, _)
ExtractLinks(links, l) ==
  IF l > Len(links) THEN <<>>
  ELSE (IF links[l] # <<>> THEN <<Elem(VStr(links[l]))>> ELSE <<>>)
       \o ExtractLinks(links, l + 1)

\* extractProgramState() on a launched browser: the document, or null
ExtractProgramState(pg) ==
  IF ~pg.hasModules THEN VNull
  ELSE VObj(<< Prop(SModules, VObj(ExtractModules(pg.modules, 1, <<>>))),
               Prop(SLinks, VArr(IF pg.hasSvg /\ pg.hasLinks
                                 THEN ExtractLinks(pg.links, 1) ELSE <<>>)) >>)

\* the host's load entry point, prog_load(prog): every module of the document
\* is rendered under its document id with the name its definition declares and
\* the layout the document gives, every link under its link string; the page
\* then shows this program and nothing else
HostModuleNode(id, rec) ==
  Node(id,
       IF NameMatch(ToStr(Member(rec, SDefinition))).ok
       THEN VStr(NameMatch(ToStr(Member(rec, SDefinition))).name) ELSE VUndef,
       Member(rec, SDefinition), Member(rec, STop), Member(rec, SLeft),
       Member(rec, SFilename), <<>>, <<>>)

HostProgLoad(prog) ==
  LET modules == Member(prog, SModules).kv
      links == Member(prog, SLinks).kv
  IN  [hasModules |-> TRUE,
       modules |-> [i \in 1..Len(modules) |-> HostModuleNode(modules[i].k, modules[i].v)],
       hasSvg |-> TRUE, hasLinks |-> TRUE,
       links |-> [i \in 1..Len(links) |-> ToStr(links[i].v)]]

\* injectProgram(programJson): the page after prog_load received
\* JSON.parse(JSON.stringify(programJson))
InjectProgram(programJson) == HostProgLoad(ParseJSON(Stringify(programJson)).v)

(***************************************************************************)
(* findModule and the module reference syntax (server.js)                  *)
(***************************************************************************)
LowerChar(c) ==
  CASE c = "A" -> "a" [] c = "B" -> "b" [] c = "C" -> "c" [] c = "G" -> "g"
    [] c = "L" -> "l" [] c = "O" -> "o" [] c = "X" -> "x" [] OTHER -> c

\* s.toLowerCase(), for the capitals A B C G L O X
ToLowerCase(s) == [i \in 1..Len(s) |-> LowerChar(s[i])]

SColonZeroDot == <<":","0",".">>

\* let name = module_name; let id = undefined;
\* if (module_name.includes(':0.')) { name = parts[0]; id = parts.slice(1).join(':') }
RefName(module_name) ==
  IF Includes(module_name, SColonZeroDot) THEN Split(module_name, ":")[1]
  ELSE module_name

RefId(module_name) ==
  IF Includes(module_name, SColonZeroDot)
  THEN VStr(Join(Tail(Split(module_name, ":")), ":"))
  ELSE VUndef

\* state.find(pred): the index of the first element, or 0
RECURSIVE FindById(_, _, _)
FindById(state, moduleId, i) ==
  IF i > Len(state) THEN 0
  ELSE IF state[i].id = moduleId THEN i
  ELSE FindById(state, moduleId, i + 1)

RECURSIVE FindByName(_, _, _)
FindByName(state, moduleName, i) ==
  IF i > Len(state) THEN 0
  ELSE IF Includes(ToLowerCase(state[i].name), ToLowerCase(moduleName)) THEN i
  ELSE FindByName(state, moduleName, i + 1)

\* state.map(m => m.name).filter(Boolean)
AvailableNames(state) ==
  SelectSeq([i \in 1..Len(state) |-> state[i].name], LAMBDA n : n # <<>>)

\* findModule(moduleName, moduleId) on the snapshot state: found is the index
\* of the module in state (0: the error result, which lists available unless
\* the lookup was by id)
FindModule(state, moduleName, moduleId) ==
  IF Truthy(moduleId)
  THEN [found |-> FindById(state, ToStr(moduleId), 1), byId |-> TRUE,
        available |-> <<>>]
  ELSE [found |-> FindByName(state, moduleName, 1), byId |-> FALSE,
        available |-> IF FindByName(state, moduleName, 1) = 0
                      THEN AvailableNames(state) ELSE <<>>]

(***************************************************************************)
(* setModuleInput, clickModuleButton, setModuleFile (browser.js).  Each    *)
(* is called with the id of a module node.                                 *)
(***************************************************************************)
SFile == <<"f","i","l","e">>
SText == <<"t","e","x","t">>

\* the label setModuleInput derives: prev ? prev.textContent.trim() : ''
InputLabel(input) == IF input.hasPrev THEN Trim(input.prevText) ELSE <<>>

\* a loop that takes the first input whatever its label
FirstInputAny(inputs, paramName, i) == IF i > Len(inputs) THEN 0 ELSE i

\* the first input whose label includes paramName, from input i on, or 0
RECURSIVE FirstInput(_, _, _)
FirstInput(inputs, paramName, i) ==
  IF i > Len(inputs) THEN 0
  ELSE IF Includes(InputLabel(inputs[i]), paramName) THEN i
  ELSE FirstInput(inputs, paramName, i + 1)

\* value === 'true' || value === '1' || value === 'on'
CheckedFor(value) == value \in {STrue, <<"1">>, <<"o","n">>}

\* what input.value = value stores in a control of the type: a text control
\* drops the line breaks of the value, the other types of the model keep it
Sanitize(type, value) ==
  IF type = SText THEN SelectSeq(value, LAMBDA ch : ch \notin {"\n", "\r"})
  ELSE value

\* the input after the assignment of setModuleInput
AssignInput(input, value) ==
  IF input.type = SCheckbox THEN [input EXCEPT !.checked = CheckedFor(value)]
  ELSE [input EXCEPT !.value = Sanitize(input.type, value)]

\* readModuleInput(moduleId, paramName) on a launched browser: the value and
\* the label of the first input whose label includes paramName
ReadModuleInput(pg, moduleId, paramName) ==
  LET c == GetElementById(pg, moduleId).index
      i == FirstInput(pg.modules[c].inputs, paramName, 1)
  IN  IF c = 0
      THEN [error |-> "ModuleNotFound", value |-> <<>>, label |-> <<>>]
      ELSE IF i = 0
      THEN [error |-> "ParameterNotFound", value |-> <<>>, label |-> <<>>]
      ELSE [error |-> "", value |-> pg.modules[c].inputs[i].value,
            label |-> InputLabel(pg.modules[c].inputs[i])]

\* setModuleInput(moduleId, paramName, value): error "" is the success result;
\* threw: the assignment raised (a file input takes no value but the empty
\* string) and the call rejects.  changes lists the inputs [c, i] that
\* received a change event; type is the type member of the result, which
\* only the checkbox branch sets.
SetModuleInput(pg, moduleId, paramName, value) ==
  LET c == GetElementById(pg, moduleId).index
      i == FirstInput(pg.modules[c].inputs, paramName, 1)
      input == pg.modules[c].inputs[i]
  IN  IF c = 0
      THEN [threw |-> FALSE, error |-> "ModuleNotFound", label |-> <<>>,
            type |-> VUndef, available |-> <<>>, page |-> pg, changes |-> <<>>]
      ELSE IF i = 0
      THEN [threw |-> FALSE, error |-> "ParameterNotFound", label |-> <<>>,
            type |-> VUndef, available |-> <<>>, page |-> pg, changes |-> <<>>]
      ELSE IF input.type = SFile /\ value # <<>>
      THEN [threw |-> TRUE, error |-> "InvalidStateError", label |-> <<>>,
            type |-> VUndef, available |-> <<>>, page |-> pg, changes |-> <<>>]
      ELSE [threw |-> FALSE, error |-> "", label |-> InputLabel(input),
            type |-> IF input.type = SCheckbox THEN VStr(SCheckbox) ELSE VUndef,
            available |-> <<>>,
            page |-> [pg EXCEPT !.modules[c].inputs[i] = AssignInput(input, value)],
            changes |-> << <<c, i>> >>]

\* a loop that compares the texts as they are written
RECURSIVE FirstButtonExact(_, _, _)
FirstButtonExact(buttons, buttonText, i) ==
  IF i > Len(buttons) THEN 0
  ELSE IF Includes(Trim(buttons[i]), buttonText) THEN i
  ELSE FirstButtonExact(buttons, buttonText, i + 1)

\* the first button whose trimmed text includes buttonText, compared in lower
\* case, from button i on, or 0
RECURSIVE FirstButton(_, _, _)
FirstButton(buttons, buttonText, i) ==
  IF i > Len(buttons) THEN 0
  ELSE IF Includes(ToLowerCase(Trim(buttons[i])), ToLowerCase(buttonText)) THEN i
  ELSE FirstButton(buttons, buttonText, i + 1)

\* clickModuleButton(moduleId, buttonText): clicks lists the buttons [c, i]
\* clicked
ClickModuleButton(pg, moduleId, buttonText) ==
  LET c == GetElementById(pg, moduleId).index
      i == FirstButton(pg.modules[c].buttons, buttonText, 1)
  IN  IF c = 0
      THEN [error |-> "ModuleNotFound", clicked |-> <<>>, available |-> <<>>,
            clicks |-> <<>>]
      ELSE IF i = 0
      THEN [error |-> "ButtonNotFound", clicked |-> <<>>,
            available |-> [k \in 1..Len(pg.modules[c].buttons) |->
                             Trim(pg.modules[c].buttons[k])],
            clicks |-> <<>>]
      ELSE [error |-> "", clicked |-> Trim(pg.modules[c].buttons[i]),
            available |-> <<>>, clicks |-> << <<c, i>> >>]

\* the inputs matched by the locator [id="moduleId"] input[type="file"]
FileInputs(pg, moduleId) ==
  UNION { { <<c, i>> : i \in { k \in 1..Len(pg.modules[c].inputs) :
                                 pg.modules[c].inputs[k].type = SFile } } :
          c \in { n \in 1..Len(pg.modules) : pg.modules[n].id = moduleId } }

\* the value a file input shows once a file was chosen
FakePath(filePath) ==
  <<"C",":","\\","f","a","k","e","p","a","t","h","\\">>
    \o Split(filePath, "/")[Len(Split(filePath, "/"))]

\* setModuleFile(moduleId, filePath): threw when the locator matches several
\* inputs (setInputFiles needs exactly one)
SetModuleFile(pg, moduleId, filePath) ==
  LET matched == FileInputs(pg, moduleId)
      ci == CHOOSE m \in matched : TRUE
  IN  IF matched = {}
      THEN [threw |-> FALSE, error |-> "NoFileInput", page |-> pg]
      ELSE IF Cardinality(matched) > 1
      THEN [threw |-> TRUE, error |-> "StrictMode", page |-> pg]
      ELSE [threw |-> FALSE, error |-> "",
            page |-> [pg EXCEPT !.modules[ci[1]].inputs[ci[2]].value =
                                  FakePath(filePath)]]

(***************************************************************************)
(* State                                                                   *)
(***************************************************************************)
VARIABLES
  launched,       \* browser.js: browser !== null && page !== null
  loadedProgram,  \* server.js: let loadedProgram (VNull or a string)
  page,           \* what the browser page shows
  downloads,      \* browser.js: let downloads
  handlers,       \* the download events of the page, in the order the host
                  \* triggered them: what the handler of each has done
  saved,          \* the documents saveProgram wrote under programs/custom
  programJson,    \* what the session's createProgram call returned
  request,        \* the arguments of the last tool call
  response        \* the result of the last tool call

vars == <<launched, loadedProgram, page, downloads, handlers, saved,
          programJson, request, response>>

\* bounds of the model
MaxModules == 2
MaxLinks == 2

SeqsUpTo(S, n) == UNION {[1..k -> S] : k \in 0..n}

\* what Math.random().toString() may return
RandomIds == { <<"0",".","1">>, <<"0",".","2">> }

Link(from, to) == [from |-> from, to |-> to]

\* the link specifications a caller may pass: names a and b are declared by
\* a.js and b.js, name a.b by d.js, names c and d by no file
LinkSpecs ==
  { Link(<<"a",".","o">>, <<"b",".","i">>),
    Link(<<"c",".","o">>, <<"b",".","i">>),
    Link(<<"a",".","o">>, <<"c",".","i">>),
    Link(<<"c",".","o">>, <<"d",".","i">>),
    Link(<<"v","a","l","u","e","O","f",".","o">>, <<"b",".","i">>),
    Link(<<"a">>, <<"b",".","i">>),
    Link(<<"a",".","o",".","x">>, <<"b",".","i">>),
    Link(<<"a",".","b",".","o">>, <<"a",".","i">>),
    Link(<<"a",".","\"">>, <<"b",".","\\">>) }

EmptyPage ==
  [hasModules |-> TRUE, modules |-> <<>>, hasSvg |-> TRUE, hasLinks |-> TRUE,
   links |-> <<>>]

NoRequest == [tool |-> "none"]
NoResponse == [tool |-> "none", isError |-> FALSE]

SCustomCreated ==
  <<"c","u","s","t","o","m"," ","(","c","r","e","a","t","e","d",")">>

\* the module list of a create_program result: state.map(m => ({id, name}))
IdsAndNames(state) ==
  [i \in 1..Len(state) |-> [id |-> state[i].id, name |-> state[i].name]]

(***************************************************************************)
(* Tool create_program (server.js).  rnd are the values Math.random        *)
(* returns during the call.                                                *)
(***************************************************************************)
CreateProgramTool ==
  /\ request.tool = "none"
  /\ \E modulePaths \in SeqsUpTo(ModulePaths, MaxModules),
        links \in SeqsUpTo(LinkSpecs, MaxLinks) :
       \E rnd \in [1..Len(modulePaths) -> RandomIds] :
         LET created == CreateProgram(modulePaths, links, rnd)
         IN  /\ request' = [tool |-> "create_program", modulePaths |-> modulePaths,
                            links |-> links, rnd |-> rnd]
             /\ IF ~launched
                THEN /\ response' = [tool |-> "create_program", isError |-> TRUE,
                                     error |-> "NotLaunched", named |-> <<>>,
                                     injected |-> FALSE, moduleCount |-> 0,
                                     linkCount |-> 0, modules |-> <<>>]
                     /\ UNCHANGED <<loadedProgram, page, programJson>>
                ELSE IF ~created.ok
                THEN /\ response' = [tool |-> "create_program", isError |-> TRUE,
                                     error |-> created.error, named |-> created.named,
                                     injected |-> FALSE, moduleCount |-> 0,
                                     linkCount |-> 0, modules |-> <<>>]
                     /\ UNCHANGED <<loadedProgram, page, programJson>>
                ELSE /\ programJson' = created.doc
                     /\ page' = InjectProgram(created.doc)
                     /\ loadedProgram' = VStr(SCustomCreated)
                     /\ response' =
                          [tool |-> "create_program", isError |-> FALSE,
                           error |-> "", named |-> <<>>, injected |-> TRUE,
                           moduleCount |-> Len(Member(created.doc, SModules).kv),
                           linkCount |-> Len(Member(created.doc, SLinks).kv),
                           modules |-> IdsAndNames(GetProgramState(page'))]
  /\ UNCHANGED <<launched, handlers, downloads, saved>>

(***************************************************************************)
(* Tool save_program (server.js)                                           *)
(***************************************************************************)
SaveNames == { <<"s">> }

SaveProgramTool ==
  /\ request.tool = "create_program"
  /\ \E name \in SaveNames :
       LET programState == ExtractProgramState(page)
       IN  /\ request' = [tool |-> "save_program", name |-> name]
           /\ IF ~launched
              THEN /\ response' = [tool |-> "save_program", isError |-> TRUE,
                                   error |-> "NotLaunched"]
                   /\ UNCHANGED saved
              ELSE IF ~Truthy(programState)
              THEN /\ response' = [tool |-> "save_program", isError |-> TRUE,
                                   error |-> "NoState"]
                   /\ UNCHANGED saved
              ELSE /\ response' = [tool |-> "save_program", isError |-> FALSE,
                                   error |-> ""]
                   /\ saved' = SetProp(saved, name, programState)
  /\ UNCHANGED <<launched, handlers, loadedProgram, page, downloads, programJson>>

\* a preset program already on the page
SPreset == <<"p">>
PresetPage ==
  [hasModules |-> TRUE,
   modules |-> << Node(<<"0",".","5">>, VStr(<<"p">>), VStr(<<>>), VStr(<<"0">>),
                       VStr(<<"0">>), VStr(<<>>), <<>>, <<>>) >>,
   hasSvg |-> TRUE, hasLinks |-> TRUE, links |-> <<>>]

InitBuild ==
  /\ launched \in BOOLEAN
  /\ \/ loadedProgram = VNull /\ page = EmptyPage
     \/ launched /\ loadedProgram = VStr(SPreset) /\ page = PresetPage
  /\ downloads = <<>>
  /\ handlers = <<>>
  /\ saved = <<>>
  /\ programJson = VUndef
  /\ request = NoRequest
  /\ response = NoResponse

NextBuild == CreateProgramTool \/ SaveProgramTool

SpecBuild == InitBuild /\ [][NextBuild]_vars

(***************************************************************************)
(* Properties of createProgram and the create_program tool                 *)
(***************************************************************************)
\* a create_program call that reached createProgram has just returned
Created == request.tool = "create_program" /\ launched

ReadableCall == \A j \in 1..Len(request.modulePaths) : Readable(request.modulePaths[j])

\* the modules of the call that declare the name n
Declaring(n) ==
  { j \in 1..Len(request.modulePaths) :
      /\ Readable(request.modulePaths[j])
      /\ NameMatch(FileText(request.modulePaths[j])).ok
      /\ NameMatch(FileText(request.modulePaths[j])).name = n }

Dots(text) == { p \in 1..Len(text) : text[p] = "." }

\* the ways to read text as "<module name>.<port>" with a declared module name
Readings(text) ==
  { p \in Dots(text) : Declaring(SubSeq(text, 1, p - 1)) # {} }

\* the module name of a link end: what stands before its first dot
NamedModule(text) ==
  IF Dots(text) = {} THEN text
  ELSE SubSeq(text, 1, (CHOOSE p \in Dots(text) : \A q \in Dots(text) : p <= q) - 1)

Resolvable(text) == Declaring(NamedModule(text)) # {}

\* a link end decoded from the document: JSON.parse of the source or dest field
\* of the parsed link string
DecodedEnd(linkString, field) ==
  ParseJSONValue(Member(ParseJSON(ToStr(linkString)).v, field)).v

\* the end {id, type, name} that text stands for under one of its readings
EncodesEnd(end, text, type) ==
  \E p \in Readings(text) : \E j \in Declaring(SubSeq(text, 1, p - 1)) :
    end = VObj(<< Prop(SId, VStr(request.rnd[j])), Prop(SType, VStr(type)),
                  Prop(SName, VStr(SubSeq(text, p + 1, Len(text)))) >>)

DocLinks == Member(programJson, SLinks).kv
DocModules == Member(programJson, SModules).kv

\* C1: when every link of a createProgram call names declared modules, the
\* returned links has one string per input link, in input order, and string i
\* decodes in three steps to source {id of the module named before the dot of
\* links[i].from, "outputs", the port after the dot} and dest {id of the
\* module named in links[i].to, "inputs", its port}
C1_LinkEncoding ==
  (/\ Created /\ ~response.isError
   /\ \A i \in 1..Len(request.links) :
        Readings(request.links[i].from) # {} /\ Readings(request.links[i].to) # {})
  => /\ Len(DocLinks) = Len(request.links)
     /\ \A i \in 1..Len(request.links) :
          /\ EncodesEnd(DecodedEnd(DocLinks[i].v, SSource), request.links[i].from, SOutputs)
          /\ EncodesEnd(DecodedEnd(DocLinks[i].v, SDest), request.links[i].to, SInputs)

\* the document save_program wrote
SavedDoc == GetProp(saved, CHOOSE name \in SaveNames : TRUE)

ModuleIds(doc) == { Member(doc, SModules).kv[i].k : i \in 1..Len(Member(doc, SModules).kv) }

\* the {sourceId, sourcePort, destId, destPort} tuple of a link string
LinkTuple(linkString) ==
  [sourceId |-> Member(DecodedEnd(linkString, SSource), SId),
   sourcePort |-> Member(DecodedEnd(linkString, SSource), SName),
   destId |-> Member(DecodedEnd(linkString, SDest), SId),
   destPort |-> Member(DecodedEnd(linkString, SDest), SName)]

LinkTuples(doc) ==
  { LinkTuple(Member(doc, SLinks).kv[i].v) : i \in 1..Len(Member(doc, SLinks).kv) }

\* the session extracted the program it created and injected
RoundTripped ==
  /\ request.tool = "save_program" /\ ~response.isError
  /\ loadedProgram = VStr(SCustomCreated)

\* C2: round trip: the document extractProgramState yields after a document D
\* built by createProgram was injected has the module id set of D and the set
\* of {sourceId, sourcePort, destId, destPort} tuples of D
C2_RoundTrip ==
  RoundTripped =>
    /\ ModuleIds(SavedDoc) = ModuleIds(programJson)
    /\ LinkTuples(SavedDoc) = LinkTuples(programJson)

C2_Witness ==
  /\ RoundTripped
  /\ Cardinality(ModuleIds(programJson)) = 2
  /\ Cardinality(LinkTuples(programJson)) = 2

\* the first link of the call one of whose ends names no declared module
Unresolved ==
  { i \in 1..Len(request.links) :
      ~Resolvable(request.links[i].from) \/ ~Resolvable(request.links[i].to) }

FirstUnresolved == CHOOSE i \in Unresolved : \A k \in Unresolved : i <= k

\* C3: a createProgram call with a link whose source module name no module
\* declares fails with an error naming that source name, not the destination
\* name; when only the destination name is unresolved the error names the
\* destination
C3_ErrorNamesModule ==
  (Created /\ ReadableCall /\ Unresolved # {}) =>
    /\ response.isError
    /\ response.error = "ModuleNotFound"
    /\ response.named =
         IF ~Resolvable(request.links[FirstUnresolved].from)
         THEN NamedModule(request.links[FirstUnresolved].from)
         ELSE NamedModule(request.links[FirstUnresolved].to)

\* C4: when any link of the list names an unresolvable module, at any
\* position, createProgram returns no document: the create_program call does
\* not inject, leaves loadedProgram and the page as they were and returns an
\* error result
C4_NoPartialProgram ==
  [][(request'.tool = "create_program" /\ launched' /\ Unresolved' # {}) =>
       /\ response'.isError
       /\ ~response'.injected
       /\ programJson' = programJson
       /\ page' = page
       /\ loadedProgram' = loadedProgram]_vars

\* C5: createProgram with an empty link list succeeds whenever every module
\* path is readable, whatever names the modules declare, and the document it
\* returns has links = []
C5_NoLinksSucceeds ==
  (Created /\ ReadableCall /\ request.links = <<>>) =>
    /\ ~response.isError
    /\ Member(programJson, SLinks) = VArr(<<>>)

\* several modules declare the same name, or the module declares none
C5_Witness ==
  /\ Created /\ ReadableCall /\ request.links = <<>>
  /\ request.modulePaths \in {<<PathA, PathA>>, <<PathN>>}
  /\ ~response.isError

\* C6: within one createProgram call the ids are pairwise distinct: the
\* returned modules mapping has exactly one entry per element of modulePaths
C6_FreshIds ==
  (Created /\ ~response.isError) =>
    /\ Len(DocModules) = Len(request.modulePaths)
    /\ \A j, k \in 1..Len(request.modulePaths) :
         j # k => request.rnd[j] # request.rnd[k]

(***************************************************************************)
(* A loaded program: the module nodes and overlay entries the host may     *)
(* show, and the tools that read and drive them (server.js)                *)
(***************************************************************************)
MaxNodes == 2
MaxOverlay == 2

Id1 == <<"0",".","1">>
Id2 == <<"0",".","2">>
Id9 == <<"0",".","9">>

\* a checkbox with raw value "on", not checked, after the text " invert "
CheckOff == Control(TRUE, <<" ","i","n","v","e","r","t"," ">>, SCheckbox, <<"o","n">>, FALSE)
\* a checked checkbox that is the first child of its parent
CheckOn == Control(FALSE, <<>>, SCheckbox, <<"o","n">>, TRUE)
TextDpi == Control(TRUE, <<"d","p","i">>, SText, <<"7">>, FALSE)
FileIn == Control(TRUE, <<"f","i","l","e">>, SFile, <<>>, FALSE)

PlainNode(id, name, inputs, buttons) ==
  Node(id, name, VStr(<<>>), VStr(<<"0">>), VStr(<<"0">>), VStr(<<>>), inputs, buttons)

\* module nodes: two modules named a, a module whose name contains a, a
\* module whose name holds a colon, a child without id or dataset
ModuleNodes ==
  { PlainNode(Id1, VStr(<<"a">>), <<CheckOff, TextDpi>>, << <<" ","c","a","l","c"," ">> >>),
    PlainNode(Id2, VStr(<<"a">>), <<CheckOn>>, <<>>),
    PlainNode(Id2, VStr(<<"B","a">>), <<FileIn>>, << <<"v","i","e","w">> >>),
    PlainNode(Id1, VStr(<<"a",":","b">>), <<>>, <<>>),
    PlainNode(<<>>, VUndef, <<>>, <<>>) }

\* element ids are unique in the page
DistinctIds(nodes) ==
  \A j, k \in 1..Len(nodes) :
    (j # k /\ nodes[j].id # <<>>) => nodes[j].id # nodes[k].id

SOut == VStr(<<"o">>)
SIn == VStr(<<"i">>)
EndText(id, type, name) ==
  Stringify(VObj(<< Prop(SId, VStr(id)), Prop(SType, VStr(type)), Prop(SName, name) >>))

\* ids of overlay children: a link 0.1 -> 0.2, a link 0.1 -> 0.1, a link from
\* the id 0.9 no module carries, a text that is no JSON, an entry without source, an entry
\* whose source is no JSON, an entry whose dest is null, a child without id
OverlayIds ==
  { EncodeLink(VStr(Id1), SOut, VStr(Id2), SIn),
    EncodeLink(VStr(Id1), SOut, VStr(Id1), SIn),
    EncodeLink(VStr(Id9), SOut, VStr(Id1), SIn),
    <<"x">>,
    Stringify(VObj(<< Prop(SDest, VStr(EndText(Id1, SInputs, SIn))) >>)),
    Stringify(VObj(<< Prop(SSource, VStr(<<"x">>)),
                      Prop(SDest, VStr(EndText(Id1, SInputs, SIn))) >>)),
    Stringify(VObj(<< Prop(SSource, VStr(EndText(Id2, SOutputs, SOut))),
                      Prop(SDest, VStr(SNull)) >>)),
    <<>> }

Pages ==
  { [hasModules |-> TRUE, modules |-> nodes, hasSvg |-> TRUE, hasLinks |-> TRUE,
     links |-> overlay] :
      nodes \in { n \in SeqsUpTo(ModuleNodes, MaxNodes) : DistinctIds(n) },
      overlay \in SeqsUpTo(OverlayIds, MaxOverlay) }

\* the pages the driving tools are exercised on: every arrangement of module
\* nodes, under an overlay that is empty or holds the link 0.1 -> 0.2
DrivenPages ==
  { pg \in Pages :
      pg.links \in { <<>>, <<EncodeLink(VStr(Id1), SOut, VStr(Id2), SIn)>> } }

\* a session: no browser, a browser with no program, or a browser showing a
\* loaded program
Session(pages) ==
  /\ launched \in BOOLEAN
  /\ \/ loadedProgram = VNull /\ page = EmptyPage
     \/ launched /\ loadedProgram = VStr(SPreset) /\ page \in pages
  /\ downloads = <<>>
  /\ handlers = <<>>
  /\ saved = <<>>
  /\ programJson = VUndef
  /\ request = NoRequest
  /\ response = NoResponse

InitRead == Session(Pages)

Init == Session(DrivenPages)

(***************************************************************************)
(* Tool get_program_state                                                  *)
(***************************************************************************)
GetProgramStateTool ==
  /\ request.tool # "get_program_state"
  /\ request' = [tool |-> "get_program_state"]
  /\ response' =
       IF ~launched
       THEN [tool |-> "get_program_state", isError |-> TRUE,
             error |-> "NotLaunched", state |-> <<>>]
       ELSE IF ~Truthy(loadedProgram)
       THEN [tool |-> "get_program_state", isError |-> TRUE,
             error |-> "NoProgram", state |-> <<>>]
       ELSE [tool |-> "get_program_state", isError |-> FALSE, error |-> "",
             state |-> GetProgramState(page)]
  /\ UNCHANGED <<launched, handlers, loadedProgram, page, downloads, saved, programJson>>

(***************************************************************************)
(* Tools set_parameter, trigger_action, load_file: each resolves its       *)
(* module reference with findModule                                        *)
(***************************************************************************)
\* the module references a caller may pass
ModuleRefs ==
  { <<"a">>, <<"B">>, <<"z","z">>,
    <<"a",":","0",".","1">>, <<"z","z",":","0",".","2">>,
    <<"a",":","0",".","9">>, <<"a",":","b",":","0",".","1">> }

ParamNames == { <<"i","n","v">>, <<"d","p","i">>, <<"z","z">> }
ParamValues == { STrue, <<"5">> }
ButtonTexts == { <<"C","A","L","C">>, <<"z","z">> }
\* /f.png exists, /g.png does not
FilePaths == { <<"/","f",".","p","n","g">>, <<"/","g",".","p","n","g">> }
FileExists(file_path) == file_path = <<"/","f",".","p","n","g">>

\* findModule(name, id) for a module reference, given the snapshot it read:
\* the entry found (index 0: the error result)
FoundIn(state, found) ==
  [index |-> found.found,
   id |-> IF found.found = 0 THEN <<>> ELSE state[found.found].id,
   byId |-> found.byId,
   available |-> found.available]

ResolveIn(state, module_name) ==
  FoundIn(state, FindModule(state, RefName(module_name), RefId(module_name)))

ResolveRef(pg, module_name) == ResolveIn(GetProgramState(pg), module_name)

\* a result that does not flag the error
NotLaunchedSilent(tool) ==
  [tool |-> tool, isError |-> FALSE, error |-> "", resolved |-> <<>>,
   byId |-> FALSE, available |-> <<>>, label |-> <<>>, clicked |-> <<>>,
   events |-> <<>>, download |-> FALSE]

\* if (!browser.isLaunched()) return { content: [...], isError: true }
NotLaunchedResponse(tool) ==
  [tool |-> tool, isError |-> TRUE, error |-> "NotLaunched", resolved |-> <<>>,
   byId |-> FALSE, available |-> <<>>, label |-> <<>>, clicked |-> <<>>,
   events |-> <<>>, download |-> FALSE]

NotFoundResponse(tool, found) ==
  [tool |-> tool, isError |-> TRUE, error |-> "ModuleNotFound", resolved |-> <<>>,
   byId |-> found.byId, available |-> found.available, label |-> <<>>,
   clicked |-> <<>>, events |-> <<>>, download |-> FALSE]

\* set_parameter once the reference is resolved: result is what setModuleInput
\* returned or threw
SetParameterResult(found, result) ==
  /\ response' =
       [tool |-> "set_parameter", isError |-> result.threw,
        error |-> result.error, resolved |-> found.id,
        byId |-> found.byId, available |-> <<>>,
        label |-> result.label, clicked |-> <<>>,
        events |-> result.changes, download |-> FALSE]
  /\ page' = result.page

SetParameterFound(found, parameter, value) ==
  IF ~launched
  THEN response' = NotLaunchedResponse("set_parameter") /\ page' = page
  ELSE IF found.index = 0
  THEN response' = NotFoundResponse("set_parameter", found) /\ page' = page
  ELSE SetParameterResult(found, SetModuleInput(page, found.id, parameter, value))

SetParameterTool ==
  /\ request.tool = "none"
  /\ \E module_name \in ModuleRefs, parameter \in ParamNames, value \in ParamValues :
       /\ request' = [tool |-> "set_parameter", module_name |-> module_name,
                      parameter |-> parameter, value |-> value]
       /\ SetParameterFound(ResolveRef(page, module_name), parameter, value)
  /\ UNCHANGED <<launched, handlers, loadedProgram, downloads, saved, programJson>>

\* what the download handler pushes for a download the host triggers
Download == [suggestedFilename |-> <<"o",".","n","c">>, size |-> Len(<<"G">>)]

\* trigger_action once the reference is resolved: result is what
\* clickModuleButton returned
TriggerActionResult(found, result, dl) ==
  /\ downloads' = IF result.clicks # <<>> /\ dl THEN <<Download>> ELSE <<>>
  /\ response' =
       [tool |-> "trigger_action", isError |-> FALSE,
        error |-> result.error, resolved |-> found.id,
        byId |-> found.byId, available |-> result.available,
        label |-> <<>>, clicked |-> result.clicked,
        events |-> result.clicks,
        download |-> result.clicks # <<>> /\ dl]

\* clearDownloads() runs before the reference is resolved
TriggerActionFound(found, action, dl) ==
  IF ~launched
  THEN response' = NotLaunchedResponse("trigger_action") /\ downloads' = downloads
  ELSE IF found.index = 0
  THEN response' = NotFoundResponse("trigger_action", found) /\ downloads' = <<>>
  ELSE TriggerActionResult(found, ClickModuleButton(page, found.id, action), dl)

\* dl: the click makes the host trigger a download, captured within the 2 s
\* the tool waits.  No handler of an earlier download is reading when the
\* call starts (the tool with handlers in flight: TriggerActionClear).
TriggerActionTool ==
  /\ request.tool = "none"
  /\ \E module_name \in ModuleRefs, action \in ButtonTexts, dl \in BOOLEAN :
       /\ request' = [tool |-> "trigger_action", module_name |-> module_name,
                      action |-> action]
       /\ TriggerActionFound(ResolveRef(page, module_name), action, dl)
  /\ handlers' = IF response'.download THEN Append(handlers, "pushed") ELSE handlers
  /\ UNCHANGED <<launched, loadedProgram, page, saved, programJson>>

LoadFileResponse(found, isError, error) ==
  [tool |-> "load_file", isError |-> isError, error |-> error,
   resolved |-> found.id, byId |-> found.byId, available |-> <<>>,
   label |-> <<>>, clicked |-> <<>>, events |-> <<>>, download |-> FALSE]

\* load_file once the reference is resolved and the file exists: result is
\* what setModuleFile returned or threw
LoadFileResult(found, result) ==
  /\ response' = LoadFileResponse(found, result.threw, result.error)
  /\ page' = result.page

LoadFileFound(found, file_path) ==
  IF ~launched
  THEN response' = NotLaunchedResponse("load_file") /\ page' = page
  ELSE IF found.index = 0
  THEN response' = NotFoundResponse("load_file", found) /\ page' = page
  ELSE IF ~FileExists(file_path)
  THEN response' = LoadFileResponse(found, TRUE, "FileNotFound") /\ page' = page
  ELSE LoadFileResult(found, SetModuleFile(page, found.id, file_path))

LoadFileTool ==
  /\ request.tool = "none"
  /\ \E module_name \in ModuleRefs, file_path \in FilePaths :
       /\ request' = [tool |-> "load_file", module_name |-> module_name,
                      file_path |-> file_path]
       /\ LoadFileFound(ResolveRef(page, module_name), file_path)
  /\ UNCHANGED <<launched, handlers, loadedProgram, downloads, saved, programJson>>

(***************************************************************************)
(* loadProgram (browser.js) and the tool load_program (server.js).  The    *)
(* environment decides whether the navigation succeeds (gotoOk), whether   *)
(* the host defines its entry point within the timeout (entry) and which   *)
(* page the host renders (rendered).                                       *)
(***************************************************************************)
LoadPaths == { SPreset, <<"q">> }

\* a page without module container, and a container whose only child has no id
NoContainerPage ==
  [hasModules |-> FALSE, modules |-> <<>>, hasSvg |-> TRUE, hasLinks |-> TRUE,
   links |-> <<>>]
DecorPage ==
  [hasModules |-> TRUE, modules |-> << PlainNode(<<>>, VUndef, <<>>, <<>>) >>,
   hasSvg |-> TRUE, hasLinks |-> TRUE, links |-> <<>>]

LoadRendered == { EmptyPage, NoContainerPage, DecorPage, PresetPage }

\* modules && modules.childNodes.length > 0
ModulesAppeared(pg) == pg.hasModules /\ Len(pg.modules) > 0

\* loadProgram(port, programPath) on the page pg of a launched browser: the
\* steps it took, in order, and whether it threw
LoadProgram(pg, gotoOk, entry, rendered) ==
  IF ~gotoOk
  THEN [threw |-> TRUE, error |-> "NavigationFailed", steps |-> <<"goto">>,
        page |-> pg]
  ELSE IF ~entry
  THEN [threw |-> TRUE, error |-> "Timeout",
        steps |-> <<"goto", "waitEntryPoint">>, page |-> rendered]
  ELSE IF ~ModulesAppeared(rendered)
  THEN [threw |-> TRUE, error |-> "Timeout",
        steps |-> <<"goto", "waitEntryPoint", "waitModules">>, page |-> rendered]
  ELSE [threw |-> FALSE, error |-> "",
        steps |-> <<"goto", "waitEntryPoint", "waitModules", "settle">>,
        page |-> rendered]

\* state.map(m => ({ id, name, paramCount, buttons }))
ModuleSummary(state) ==
  [i \in 1..Len(state) |->
     [id |-> state[i].id, name |-> state[i].name,
      paramCount |-> Len(state[i].params), buttons |-> state[i].buttons]]

\* a tool that sets loadedProgram before it awaits loadProgram
LoadedEarly(path, result) == VStr(path)

\* await browser.loadProgram(port, path); loadedProgram = path
LoadedAfter(path, result) == IF result.threw THEN loadedProgram ELSE VStr(path)

\* load_program once the browser is known to be launched: result is what
\* loadProgram did
LoadProgramReturn(path, result) ==
  /\ page' = result.page
  /\ loadedProgram' = LoadedAfter(path, result)
  /\ response' =
       IF result.threw
       THEN [tool |-> "load_program", isError |-> TRUE, error |-> result.error,
             threw |-> TRUE, steps |-> result.steps, modules |-> <<>>]
       ELSE [tool |-> "load_program", isError |-> FALSE, error |-> "",
             threw |-> FALSE, steps |-> Append(result.steps, "getProgramState"),
             modules |-> ModuleSummary(GetProgramState(result.page))]

\* the load_program tool, whatever was called before
LoadProgramCall ==
  /\ \E path \in LoadPaths, gotoOk \in BOOLEAN, entry \in BOOLEAN,
        rendered \in LoadRendered :
       /\ request' = [tool |-> "load_program", path |-> path, gotoOk |-> gotoOk,
                      entry |-> entry, rendered |-> rendered]
       /\ IF ~launched
          THEN /\ response' = [tool |-> "load_program", isError |-> TRUE,
                               error |-> "NotLaunched", threw |-> FALSE,
                               steps |-> <<>>, modules |-> <<>>]
               /\ UNCHANGED <<page, loadedProgram>>
          ELSE LoadProgramReturn(path, LoadProgram(page, gotoOk, entry, rendered))
  /\ UNCHANGED <<launched, handlers, downloads, saved, programJson>>

\* load_program as the first call of a session
LoadProgramTool ==
  /\ request.tool = "none"
  /\ LoadProgramCall

Next ==
  \/ LoadProgramTool
  \/ GetProgramStateTool
  \/ SetParameterTool
  \/ TriggerActionTool
  \/ LoadFileTool

Spec == Init /\ [][Next]_vars

\* the server before launch_browser: every tool that needs the browser,
\* called while it is not launched
InitIdle ==
  /\ launched = FALSE
  /\ loadedProgram = VNull
  /\ page = EmptyPage
  /\ downloads = <<>>
  /\ handlers = <<>>
  /\ saved = <<>>
  /\ programJson = VUndef
  /\ request = NoRequest
  /\ response = NoResponse

NextIdle ==
  \/ LoadProgramTool
  \/ GetProgramStateTool
  \/ SetParameterTool
  \/ TriggerActionTool
  \/ LoadFileTool
  \/ CreateProgramTool
  \/ SaveProgramTool

SpecIdle == InitIdle /\ [][NextIdle]_vars

\* extractProgramState() called on the page
ExtractProgramStateCall ==
  /\ request.tool # "extractProgramState"
  /\ request' = [tool |-> "extractProgramState"]
  /\ response' =
       IF ~launched
       THEN [tool |-> "extractProgramState", isError |-> TRUE,
             error |-> "NotLaunched", doc |-> VNull]
       ELSE [tool |-> "extractProgramState", isError |-> FALSE, error |-> "",
             doc |-> ExtractProgramState(page)]
  /\ UNCHANGED <<launched, handlers, loadedProgram, page, downloads, saved, programJson>>

\* reading the state of every page the host may show
NextRead == GetProgramStateTool \/ ExtractProgramStateCall

SpecRead == InitRead /\ [][NextRead]_vars

(***************************************************************************)
(* Properties of getProgramState                                           *)
(***************************************************************************)
\* get_program_state has just returned the snapshot of the page
Read == response.tool = "get_program_state" /\ ~response.isError

\* the children of the module container that carry an id, in container order
LiveNodes == SelectSeq(page.modules, LAMBDA n : n.id # <<>>)

LiveIds == { LiveNodes[i].id : i \in 1..Len(LiveNodes) }

\* C7: in every snapshot every parameter of kind checkbox has the value "true"
\* or "false" that its control's checked state gives, whatever the control's
\* raw value is
C7_CheckboxValue ==
  Read =>
    /\ Len(response.state) = Len(LiveNodes)
    /\ \A m \in 1..Len(response.state) :
         /\ Len(response.state[m].params) = Len(LiveNodes[m].inputs)
         /\ \A i \in 1..Len(response.state[m].params) :
              LiveNodes[m].inputs[i].type = SCheckbox =>
                /\ response.state[m].params[i].type = SCheckbox
                /\ response.state[m].params[i].value =
                     (IF LiveNodes[m].inputs[i].checked THEN STrue ELSE SFalse)

\* a checkbox with raw value "on" that is not checked reads "false"
C7_Witness ==
  /\ Read
  /\ \E m \in 1..Len(response.state) : \E i \in 1..Len(response.state[m].params) :
       /\ LiveNodes[m].inputs[i].type = SCheckbox
       /\ LiveNodes[m].inputs[i].value = <<"o","n">>
       /\ ~LiveNodes[m].inputs[i].checked
       /\ response.state[m].params[i].value = SFalse

\* C8: the snapshot has exactly one entry for each child of the module
\* container that has a non-empty id, in container order, and no other entry:
\* none for a child without id, none for an id only the overlay names
C8_OneEntryPerLiveModule ==
  Read =>
    /\ Len(response.state) = Len(LiveNodes)
    /\ \A m \in 1..Len(response.state) : response.state[m].id = LiveNodes[m].id

\* a page with a child without id before a module, under an overlay that
\* names the id 0.9 of no module
C8_Witness ==
  /\ Read
  /\ Len(page.modules) = 2 /\ page.modules[1].id = <<>> /\ page.modules[2].id = Id1
  /\ page.links = <<EncodeLink(VStr(Id9), SOut, VStr(Id1), SIn)>>
  /\ Len(response.state) = 1
  /\ response.state[1].connectedFrom # <<>>

\* an overlay entry read in three steps.  ok: the entry parses, that is, the
\* id is the JSON text of an object whose source and dest are JSON texts of
\* objects
LinkEnds(linkId) ==
  LET outer == ParseJSON(linkId)
      source == ParseJSONValue(Member(outer.v, SSource))
      dest == ParseJSONValue(Member(outer.v, SDest))
  IN  [ok |-> /\ outer.ok /\ outer.v.t = "obj"
              /\ Member(outer.v, SSource).t = "str" /\ source.ok /\ source.v.t = "obj"
              /\ Member(outer.v, SDest).t = "str" /\ dest.ok /\ dest.v.t = "obj",
       source |-> source.v,
       dest |-> dest.v]

EntryOf(id) == CHOOSE m \in 1..Len(response.state) : response.state[m].id = id

\* a record of the list names the peer and the ports of the link
Lists(records, peer, source, dest) ==
  \E r \in 1..Len(records) :
    /\ records[r].peerId = Member(peer, SId)
    /\ records[r].port = ToStr(Member(source, SName)) \o SArrow \o ToStr(Member(dest, SName))

\* the snapshot reports the link on both of its ends that are live modules
Reported(source, dest) ==
  /\ ToStr(Member(source, SId)) \in LiveIds =>
       Lists(response.state[EntryOf(ToStr(Member(source, SId)))].connectedTo,
             dest, source, dest)
  /\ ToStr(Member(dest, SId)) \in LiveIds =>
       Lists(response.state[EntryOf(ToStr(Member(dest, SId)))].connectedFrom,
             source, source, dest)

\* C9: whatever the overlay holds (ids that are no JSON, entries whose source
\* or dest is missing or no JSON), get_program_state on a loaded program
\* raises nothing, returns every live module and reports the connections of
\* every overlay entry that parses
C9_OverlayTolerated ==
  (request.tool = "get_program_state" /\ launched /\ Truthy(loadedProgram)) =>
    /\ ~response.isError
    /\ { response.state[m].id : m \in 1..Len(response.state) } = LiveIds
    /\ \A l \in 1..Len(page.links) :
         LET ends == LinkEnds(page.links[l])
         IN  ends.ok => Reported(ends.source, ends.dest)

\* an entry that is no JSON stands before the link 0.1 -> 0.2 of two live
\* modules
C9_Witness ==
  /\ Read
  /\ page.links = << <<"x">>, EncodeLink(VStr(Id1), SOut, VStr(Id2), SIn) >>
  /\ LiveIds = {Id1, Id2}
  /\ response.state[EntryOf(Id1)].connectedTo # <<>>

(***************************************************************************)
(* Properties of module reference resolution                               *)
(***************************************************************************)
\* set_parameter, trigger_action or load_file has just resolved a reference
Referenced ==
  request.tool \in {"set_parameter", "trigger_action", "load_file"} /\ launched

\* the ids id for which the reference reads "<name>:<id>", id beginning "0."
QualifiedIds(ref) ==
  { SubSeq(ref, p + 1, Len(ref)) :
      p \in { q \in 1..Len(ref) : ref[q] = ":" /\ StartsAt(ref, SColonZeroDot, q) } }

\* the live modules whose name matches a bare name: the name contains it,
\* compared without regard to case
NameMatches(ref) ==
  { m \in 1..Len(LiveNodes) :
      Includes(ToLowerCase(StateName(LiveNodes[m])), ToLowerCase(ref)) }

\* C10: a reference "<name>:<id>" with id beginning "0." resolves to the live
\* module whose id is <id>, also when several modules share the name; a bare
\* "<name>" resolves to the first module in container order whose name
\* matches it
C10_ReferenceResolution ==
  Referenced =>
    /\ \A id \in QualifiedIds(request.module_name) :
         id \in LiveIds => response.resolved = id
    /\ (":" \notin { request.module_name[q] : q \in 1..Len(request.module_name) }
        /\ NameMatches(request.module_name) # {}) =>
         response.resolved =
           LiveNodes[CHOOSE m \in NameMatches(request.module_name) :
                       \A k \in NameMatches(request.module_name) : m <= k].id

(***************************************************************************)
(* Properties of the driving tools: lookup failures                        *)
(***************************************************************************)
\* the names of the live modules, in container order
LiveNames ==
  SelectSeq([m \in 1..Len(LiveNodes) |-> StateName(LiveNodes[m])],
            LAMBDA n : n # <<>>)

\* the live module the last call resolved its reference to
Resolved == LiveNodes[CHOOSE m \in 1..Len(LiveNodes) : LiveNodes[m].id = response.resolved]

\* C11: every lookup failure lists the alternatives: a module reference that
\* matches nothing, by name or by id, lists the names of the live modules; a
\* parameter label that matches nothing lists the labels of the module's
\* parameters; a button text that matches nothing lists the texts of the
\* module's buttons
C11_LookupFailureLists ==
  Referenced =>
    /\ response.error = "ModuleNotFound" => response.available = LiveNames
    /\ response.error = "ParameterNotFound" =>
         response.available =
           [i \in 1..Len(Resolved.inputs) |-> InputLabel(Resolved.inputs[i])]
    /\ response.error = "ButtonNotFound" =>
         response.available =
           [i \in 1..Len(Resolved.buttons) |-> Trim(Resolved.buttons[i])]

(***************************************************************************)
(* The page drivers called directly (browser.js): setModuleInput and       *)
(* clickModuleButton with any element id, label and text                   *)
(***************************************************************************)
\* a module with three controls and three buttons, two of which read calc
Panel ==
  PlainNode(Id2, VStr(<<"p">>), <<TextDpi, CheckOn, FileIn>>,
            << <<"v","i","e","w">>, <<" ","C","a","l","c"," ">>, <<"c","a","l","c">> >>)

DrivePages ==
  { [hasModules |-> TRUE, modules |-> nodes, hasSvg |-> TRUE, hasLinks |-> TRUE,
     links |-> <<>>] :
      nodes \in { n \in SeqsUpTo(ModuleNodes \cup {Panel}, MaxNodes) : DistinctIds(n) } }

DriveIds == { Id1, Id2, Id9 }
DriveParams == ParamNames \cup { <<>> }
DriveValues == { STrue, <<"1">>, <<"o","n">>, <<"5">>, <<"5","\n">>, <<>> }
DriveTexts == ButtonTexts \cup { <<>> }

\* if (!page) throw new Error('Browser not launched')
DriverNotLaunched(tool) ==
  [tool |-> tool, threw |-> TRUE, error |-> "NotLaunched", label |-> <<>>,
   type |-> VUndef, clicked |-> <<>>, available |-> <<>>, events |-> <<>>]

InitDrive ==
  /\ launched \in BOOLEAN
  /\ loadedProgram = VStr(SPreset)
  /\ page \in DrivePages
  /\ downloads = <<>>
  /\ handlers = <<>>
  /\ saved = <<>>
  /\ programJson = VUndef
  /\ request = NoRequest
  /\ response = NoResponse

\* what setModuleInput returns or throws, and the page it leaves
SetModuleInputReturn(result) ==
  /\ response' =
       [tool |-> "setModuleInput", threw |-> result.threw, error |-> result.error,
        label |-> result.label, type |-> result.type, clicked |-> <<>>,
        available |-> result.available, events |-> result.changes]
  /\ page' = result.page

SetModuleInputCall ==
  /\ request.tool = "none"
  /\ \E moduleId \in DriveIds, paramName \in DriveParams, value \in DriveValues :
       /\ request' = [tool |-> "setModuleInput", moduleId |-> moduleId,
                      paramName |-> paramName, value |-> value]
       /\ IF ~launched
          THEN response' = DriverNotLaunched("setModuleInput") /\ page' = page
          ELSE SetModuleInputReturn(SetModuleInput(page, moduleId, paramName, value))
  /\ UNCHANGED <<launched, handlers, loadedProgram, downloads, saved, programJson>>

ClickModuleButtonReturn(result) ==
  response' =
    [tool |-> "clickModuleButton", threw |-> FALSE, error |-> result.error,
     label |-> <<>>, type |-> VUndef, clicked |-> result.clicked,
     available |-> result.available, events |-> result.clicks]

ClickModuleButtonCall ==
  /\ request.tool = "none"
  /\ \E moduleId \in DriveIds, buttonText \in DriveTexts :
       /\ request' = [tool |-> "clickModuleButton", moduleId |-> moduleId,
                      buttonText |-> buttonText]
       /\ IF ~launched
          THEN response' = DriverNotLaunched("clickModuleButton")
          ELSE ClickModuleButtonReturn(ClickModuleButton(page, moduleId, buttonText))
  /\ UNCHANGED <<launched, handlers, loadedProgram, page, downloads, saved, programJson>>

NextDrive ==
  \/ SetModuleInputCall
  \/ ClickModuleButtonCall

SpecDrive == InitDrive /\ [][NextDrive]_vars

(***************************************************************************)
(* Properties of setModuleInput and clickModuleButton                      *)
(***************************************************************************)
\* the modules of the page with the element id of the call (the first, if
\* any, is what getElementById returns)
Targets == { c \in 1..Len(page.modules) : page.modules[c].id = request'.moduleId }

Target == CHOOSE c \in Targets : \A d \in Targets : c <= d

\* the controls of the target module whose label contains paramName
Labelled ==
  { i \in 1..Len(page.modules[Target].inputs) :
      Includes(InputLabel(page.modules[Target].inputs[i]), request'.paramName) }

FirstLabelled == CHOOSE i \in Labelled : \A k \in Labelled : i <= k

\* every control but control i of module c is as it was
OthersKept(c, i) ==
  /\ Len(page'.modules) = Len(page.modules)
  /\ \A d \in 1..Len(page.modules) :
       /\ Len(page'.modules[d].inputs) = Len(page.modules[d].inputs)
       /\ \A k \in 1..Len(page.modules[d].inputs) :
            <<d, k>> # <<c, i>> =>
              page'.modules[d].inputs[k] = page.modules[d].inputs[k]

\* C12: setModuleInput acts on the first control, in document order, whose
\* label contains paramName (the empty paramName matches the first control):
\* a checkbox becomes checked iff value is "true", "1" or "on", a control of
\* another kind takes the value as its raw value; exactly one change event is
\* dispatched, on that control, and the result reports the matched label and
\* the control's kind
C12_SetsFirstMatch ==
  [][ (request'.tool = "setModuleInput" /\ launched /\ Targets # {} /\ Labelled # {}) =>
        LET old == page.modules[Target].inputs[FirstLabelled]
            new == page'.modules[Target].inputs[FirstLabelled]
        IN  /\ ~response'.threw /\ response'.error = ""
            /\ IF old.type = SCheckbox
               THEN /\ new.checked = (request'.value \in {STrue, <<"1">>, <<"o","n">>})
                    /\ new.value = old.value
               ELSE /\ new.value = request'.value
                    /\ new.checked = old.checked
            /\ OthersKept(Target, FirstLabelled)
            /\ response'.events = << <<Target, FirstLabelled>> >>
            /\ response'.label = InputLabel(old)
            /\ response'.type = VStr(old.type) ]_vars

\* C13: when setModuleInput finds no module with the given id, or no control
\* of the module whose label contains paramName, it returns an error result
\* and does not throw, leaves every control of every module as it was and
\* dispatches no change event
C13_NotFoundChangesNothing ==
  [][ (request'.tool = "setModuleInput" /\ launched
       /\ (Targets = {} \/ Labelled = {})) =>
        /\ ~response'.threw
        /\ response'.error = (IF Targets = {} THEN "ModuleNotFound" ELSE "ParameterNotFound")
        /\ page' = page
        /\ response'.events = <<>> ]_vars

\* a parameter no label contains, asked of a module that has controls
C13_Witness ==
  /\ request.tool = "setModuleInput"
  /\ response.error = "ParameterNotFound"
  /\ \E c \in 1..Len(page.modules) :
       page.modules[c].id = request.moduleId /\ Len(page.modules[c].inputs) > 1

\* the buttons of module c whose trimmed text contains buttonText, compared
\* without regard to case
Captioned(c) ==
  { i \in 1..Len(page.modules[c].buttons) :
      Includes(ToLowerCase(Trim(page.modules[c].buttons[i])),
               ToLowerCase(request.buttonText)) }

\* C14: clickModuleButton clicks exactly one button, the first in document
\* order whose trimmed text contains buttonText without regard to case, and
\* reports its text; when no button of the module matches it clicks nothing
\* and returns an error with the texts of all buttons of the module, in
\* document order
C14_ClicksFirstMatch ==
  (request.tool = "clickModuleButton" /\ launched) =>
    \A c \in 1..Len(page.modules) :
      page.modules[c].id = request.moduleId =>
        IF Captioned(c) # {}
        THEN /\ response.error = ""
             /\ response.events =
                  << <<c, CHOOSE i \in Captioned(c) : \A k \in Captioned(c) : i <= k>> >>
             /\ response.clicked = Trim(page.modules[c].buttons[response.events[1][2]])
        ELSE /\ response.error = "ButtonNotFound"
             /\ response.events = <<>>
             /\ response.available =
                  [i \in 1..Len(page.modules[c].buttons) |-> Trim(page.modules[c].buttons[i])]

\* CALC asked of the panel clicks its second button, the first of the two
\* that read calc
C14_Witness ==
  /\ request.tool = "clickModuleButton"
  /\ request.buttonText = <<"C","A","L","C">>
  /\ \E c \in 1..Len(page.modules) :
       /\ page.modules[c] = Panel
       /\ response.events = << <<c, 2>> >>
       /\ response.clicked = <<"C","a","l","c">>

(***************************************************************************)
(* Downloads (browser.js): the page's download handler runs beside the     *)
(* tools.  handlers[n] tells what the handler of the n-th download event   *)
(* has done: "reading" (it awaits the path and the content), "pushed" (its *)
(* record is in downloads), "cleared" (clearDownloads dropped its record), *)
(* "failed" (download.path() rejected, nothing was pushed).                *)
(***************************************************************************)
MaxDownloads == 2

\* the record the handler pushes for the n-th download event: each event
\* suggests a file name of its own
DownloadOf(n) == [suggestedFilename |-> [k \in 1..n |-> "o"], size |-> 1]

\* getLatestDownload()
GetLatestDownload(buffer) ==
  IF Len(buffer) = 0 THEN VNull ELSE buffer[Len(buffer)]

\* the module a with the button calc
ExportPage ==
  [hasModules |-> TRUE,
   modules |-> << PlainNode(Id1, VStr(<<"a">>), <<>>, << <<"c","a","l","c">> >>) >>,
   hasSvg |-> TRUE, hasLinks |-> TRUE, links |-> <<>>]

InitDownloads ==
  /\ launched = TRUE
  /\ loadedProgram = VStr(SPreset)
  /\ page = ExportPage
  /\ downloads = <<>>
  /\ handlers = <<>>
  /\ saved = <<>>
  /\ programJson = VUndef
  /\ request = NoRequest
  /\ response = NoResponse

\* the host triggers a download: the handler starts and awaits download.path()
HostDownload ==
  /\ Len(handlers) < MaxDownloads
  /\ handlers' = Append(handlers, "reading")
  /\ UNCHANGED <<launched, loadedProgram, page, downloads, saved, programJson,
                 request, response>>

\* a handler resumes with the path and the content and pushes its record to
\* the array that downloads names now
HandlerPush ==
  \E n \in 1..Len(handlers) :
    /\ handlers[n] = "reading"
    /\ downloads' = Append(downloads, DownloadOf(n))
    /\ handlers' = [handlers EXCEPT ![n] = "pushed"]
    /\ UNCHANGED <<launched, loadedProgram, page, saved, programJson, request, response>>

\* download.path() rejects (the download failed or was cancelled)
HandlerFail ==
  \E n \in 1..Len(handlers) :
    /\ handlers[n] = "reading"
    /\ handlers' = [handlers EXCEPT ![n] = "failed"]
    /\ UNCHANGED <<launched, loadedProgram, page, downloads, saved, programJson,
                   request, response>>

\* clearDownloads(): downloads = []
ClearDownloads ==
  /\ downloads' = <<>>
  /\ handlers' = [n \in 1..Len(handlers) |->
                    IF handlers[n] = "pushed" THEN "cleared" ELSE handlers[n]]

\* trigger_action up to its 2 s wait: the response is pending
TriggerActionPending(found, result) ==
  [tool |-> "pending", isError |-> FALSE, error |-> result.error,
   resolved |-> found.id, byId |-> found.byId, available |-> result.available,
   label |-> <<>>, clicked |-> result.clicked, events |-> result.clicks,
   download |-> FALSE]

TriggerActionClicked(found, action) ==
  IF found.index = 0
  THEN response' = NotFoundResponse("trigger_action", found)
  ELSE response' = TriggerActionPending(found, ClickModuleButton(page, found.id, action))

\* trigger_action from its start to the wait: clearDownloads(), findModule,
\* clickModuleButton.  cleared: the number of download events before the call
TriggerActionClear ==
  /\ response.tool # "pending"
  /\ ClearDownloads
  /\ \E module_name \in { <<"a">>, <<"z","z">> }, action \in ButtonTexts :
       /\ request' = [tool |-> "trigger_action", module_name |-> module_name,
                      action |-> action, cleared |-> Len(handlers)]
       /\ TriggerActionClicked(ResolveRef(page, module_name), action)
  /\ UNCHANGED <<launched, loadedProgram, page, saved, programJson>>

\* trigger_action after the wait: getLatestDownload() and the result
TriggerActionReport ==
  /\ response.tool = "pending"
  /\ response' = [response EXCEPT !.tool = "trigger_action",
                                  !.download = (GetLatestDownload(downloads) # VNull)]
  /\ UNCHANGED <<launched, loadedProgram, page, downloads, handlers, saved,
                 programJson, request>>

\* what export_file answers on a buffer: the latest record, or an error
ExportFile(buffer) ==
  IF GetLatestDownload(buffer) = VNull
  THEN [tool |-> "export_file", isError |-> TRUE, error |-> "NoExport",
        filename |-> <<>>, size |-> 0]
  ELSE [tool |-> "export_file", isError |-> FALSE, error |-> "",
        filename |-> GetLatestDownload(buffer).suggestedFilename,
        size |-> GetLatestDownload(buffer).size]

\* export_file, called when no trigger_action is waiting
ExportFileTool ==
  /\ response.tool \notin {"pending", "export_file"}
  /\ request' = [tool |-> "export_file"]
  /\ response' = ExportFile(downloads)
  /\ UNCHANGED <<launched, loadedProgram, page, downloads, handlers, saved, programJson>>

NextDownloads ==
  \/ HostDownload
  \/ HandlerPush
  \/ HandlerFail
  \/ TriggerActionClear
  \/ TriggerActionReport
  \/ ExportFileTool

SpecDownloads == InitDownloads /\ [][NextDownloads]_vars

(***************************************************************************)
(* Properties of the download buffer                                       *)
(***************************************************************************)
\* C15: after clearDownloads(), if the action that follows triggers no
\* download, getLatestDownload() returns null and trigger_action reports no
\* download, whatever the handlers of earlier downloads do meanwhile, also
\* when one of them is still reading at the moment of the clear
C15_ClearIsolates ==
  [][ (response.tool = "pending" /\ response'.tool = "trigger_action"
       /\ Len(handlers) = request.cleared) =>
        /\ GetLatestDownload(downloads) = VNull
        /\ ~response'.download ]_vars

\* the download events whose record was pushed since the last clear
Captured == { n \in 1..Len(handlers) : handlers[n] = "pushed" }

\* C16: getLatestDownload() returns null iff no download was captured since
\* the last clear, and otherwise the record of the captured download whose
\* event the host triggered last, also when two handlers complete in another
\* order than their events occurred
C16_LatestIsLastTriggered ==
  GetLatestDownload(downloads) =
    IF Captured = {} THEN VNull
    ELSE DownloadOf(CHOOSE n \in Captured : \A k \in Captured : k <= n)

(***************************************************************************)
(* Properties of the tools without a session, and of load_program          *)
(***************************************************************************)
\* C17: while the browser is not launched each of load_program,
\* get_program_state, set_parameter, trigger_action, load_file,
\* create_program and save_program returns an error result (nothing is
\* thrown), touches neither the page nor the saved files, and leaves
\* loadedProgram and the download buffer as they were
C17_NotLaunchedRefused ==
  [][ ~launched =>
        /\ request'.tool \in {"load_program", "get_program_state", "set_parameter",
                              "trigger_action", "load_file", "create_program",
                              "save_program"}
        /\ response'.tool = request'.tool
        /\ response'.isError /\ response'.error = "NotLaunched"
        /\ UNCHANGED <<page, saved, loadedProgram, downloads, handlers>> ]_vars

\* save_program refused after create_program was refused
C17_Witness ==
  /\ ~launched
  /\ request.tool = "save_program"
  /\ response.isError /\ response.error = "NotLaunched"
  /\ saved = <<>> /\ loadedProgram = VNull

\* the steps of a complete load_program call
LoadOrder == <<"goto", "waitEntryPoint", "waitModules", "settle", "getProgramState">>

\* C18: load_program waits for the host's entry point, then for a child of
\* the module container, then for the settle delay, in this order and each
\* once, and reads the snapshot only after the three; if a wait times out
\* the call fails with no snapshot and the path is not recorded as the
\* loaded program
C18_WaitsInOrder ==
  [][ (request'.tool = "load_program" /\ launched) =>
        /\ response'.steps = SubSeq(LoadOrder, 1, Len(response'.steps))
        /\ (request'.gotoOk /\ (~request'.entry \/ ~ModulesAppeared(request'.rendered))) =>
             /\ response'.isError /\ response'.threw
             /\ Len(response'.steps) < Len(LoadOrder)
             /\ response'.modules = <<>>
             /\ loadedProgram' = loadedProgram
        /\ ~response'.isError =>
             /\ response'.steps = LoadOrder
             /\ request'.gotoOk /\ request'.entry /\ ModulesAppeared(page')
             /\ loadedProgram' = VStr(request'.path) ]_vars

\* the program q was asked for while p is loaded, and the module container
\* stayed empty
C18_Witness ==
  /\ launched
  /\ request.tool = "load_program" /\ request.path = <<"q">>
  /\ response.steps = <<"goto", "waitEntryPoint", "waitModules">>
  /\ response.isError
  /\ loadedProgram = VStr(SPreset)

(***************************************************************************)
(* Properties of extractProgramState                                       *)
(***************************************************************************)
\* extractProgramState has just returned a document
Extracted ==
  request.tool = "extractProgramState" /\ ~response.isError /\ response.doc # VNull

\* the link strings of the extracted document, in order
ExtractedLinks ==
  [i \in 1..Len(Member(response.doc, SLinks).kv) |-> Member(response.doc, SLinks).kv[i].v.s]

\* the link string decodes through its three levels and both of its ends
\* name a module of the document
Sound(linkString, doc) ==
  LET ends == LinkEnds(linkString)
  IN  /\ ends.ok
      /\ ToStr(Member(ends.source, SId)) \in ModuleIds(doc)
      /\ ToStr(Member(ends.dest, SId)) \in ModuleIds(doc)

\* C19: in every document extractProgramState returns, each string of links
\* decodes through the three levels to a source and a dest record whose id is
\* a key of the document's modules; overlay entries that do not parse or that
\* dangle are left out of links, and the call does not fail on them
C19_LinksDecode ==
  (request.tool = "extractProgramState" /\ launched) =>
    /\ Extracted
    /\ \A i \in 1..Len(ExtractedLinks) : Sound(ExtractedLinks[i], response.doc)
    /\ ExtractedLinks =
         SelectSeq(page.links, LAMBDA l : l # <<>> /\ Sound(l, response.doc))

(***************************************************************************)
(* Module introspection (modules.js): extractWithVm, extractWithRegex,     *)
(* getModuleInfo and the tool get_module_info                              *)
(***************************************************************************)
\* texts of module files: an expression, then ";" and further statements.
\* The expressions, as the vm context evaluates 'var __result = ' + source:
\* x.y : x is not defined in the vm context: a ReferenceError
ExprRef == <<"x",".","y">>
\* null
ExprNull == <<"n","u","l","l">>
\* void 0 : undefined
ExprVoid == <<"v","o","i","d"," ","0">>
\* 5
ExprFive == <<"5">>
\* ({name:'s'})
ExprNamed == <<"(","{","n","a","m","e",":","'","s","'","}",")">>
\* ({name:'s',outputs:{v:{type:'f'},w:{}}})
ExprPorts ==
  <<"(","{","n","a","m","e",":","'","s","'",",","o","u","t","p","u","t","s",
    ":","{","v",":","{","t","y","p","e",":","'","f","'","}",",","w",":","{",
    "}","}","}",")">>
\* ({name:'s',inputs:{i:null}})
ExprNullPort ==
  <<"(","{","n","a","m","e",":","'","s","'",",","i","n","p","u","t","s",":",
    "{","i",":","n","u","l","l","}","}",")">>

Expressions == { <<>>, ExprRef, ExprNull, ExprVoid, ExprFive, ExprNamed, ExprPorts,
                 ExprNullPort }

\* var name = "foo"
StmtFoo == <<"v","a","r"," ","n","a","m","e"," ","="," ","\"","f","o","o","\"">>
\* var  name="b"
StmtB == <<"v","a","r"," "," ","n","a","m","e","=","\"","b","\"">>
\* var names = 1
StmtNames == <<"v","a","r"," ","n","a","m","e","s"," ","="," ","1">>
\* var name = 'a';var name = "foo"
StmtTwo ==
  <<"v","a","r"," ","n","a","m","e"," ","="," ","'","a","'",";","v","a","r",
    " ","n","a","m","e"," ","="," ","\"","f","o","o","\"">>
\* var inputs = {\n i:{type:'f'}\n}
StmtInputs ==
  <<"v","a","r"," ","i","n","p","u","t","s"," ","="," ","{","\n"," ","i",":",
    "{","t","y","p","e",":","'","f","'","}","\n","}">>
\* var name = "foo";var outputs = {\n o:{type:'g'},p:{}\n}
StmtOutputs ==
  <<"v","a","r"," ","n","a","m","e"," ","="," ","\"","f","o","o","\"",";","v",
    "a","r"," ","o","u","t","p","u","t","s"," ","="," ","{","\n"," ","o",":",
    "{","t","y","p","e",":","'","g","'","}",",","p",":","{","}","\n","}">>

Statements == { <<>>, StmtFoo, StmtB, StmtNames, StmtTwo, StmtInputs, StmtOutputs }

\* the texts a module file may hold
InfoTexts == { e \o <<";">> \o r : e \in Expressions, r \in Statements }

SUnknown == <<"u","n","k","n","o","w","n">>

\* extractWithVm(source): the value of the first expression of the text, or
\* the exception the script raised (a text that begins with ";" is no
\* expression: a SyntaxError)
ExtractWithVm(source) ==
  LET semicolons == { i \in 1..Len(source) : source[i] = ";" }
      expr == IF semicolons = {} THEN source
              ELSE SubSeq(source, 1, (CHOOSE i \in semicolons :
                                        \A j \in semicolons : i <= j) - 1)
      port(type) == VObj(<< Prop(SType, VStr(type)) >>)
  IN  CASE expr = ExprNull -> [threw |-> FALSE, result |-> VNull]
        [] expr = ExprVoid -> [threw |-> FALSE, result |-> VUndef]
        [] expr = ExprFive -> [threw |-> FALSE, result |-> VNum(<<"5">>)]
        [] expr = ExprNamed ->
             [threw |-> FALSE, result |-> VObj(<< Prop(SName, VStr(<<"s">>)) >>)]
        [] expr = ExprPorts ->
             [threw |-> FALSE,
              result |-> VObj(<< Prop(SName, VStr(<<"s">>)),
                                 Prop(SOutputs, VObj(<< Prop(<<"v">>, port(<<"f">>)),
                                                        Prop(<<"w">>, VObj(<<>>)) >>)) >>)]
        [] expr = ExprNullPort ->
             [threw |-> FALSE,
              result |-> VObj(<< Prop(SName, VStr(<<"s">>)),
                                 Prop(SInputs, VObj(<< Prop(<<"i">>, VNull) >>)) >>)]
        [] OTHER -> [threw |-> TRUE, result |-> VUndef]

\* \w
WordChars ==
  { "a","b","c","d","e","f","g","h","i","j","k","l","m","n","o","p","q","r","s",
    "t","u","v","w","x","y","z","A","B","C","D","E","F","G","H","I","J","K","L",
    "M","N","O","P","Q","R","S","T","U","V","W","X","Y","Z","0","1","2","3","4",
    "5","6","7","8","9","_" }

RECURSIVE WordEnd(_, _)
WordEnd(t, i) ==
  IF i <= Len(t) /\ t[i] \in WordChars THEN WordEnd(t, i + 1) ELSE i

\* [\s\S]*?\n\s*\} from position i: the position of the first line break that
\* white space and "}" follow, or 0
BlockEnd(t, i) ==
  LET ends == { e \in i..Len(t) :
                  /\ t[e] = "\n"
                  /\ SpaceEnd(t, e + 1) <= Len(t) /\ t[SpaceEnd(t, e + 1)] = "}" }
  IN  IF ends = {} THEN 0 ELSE CHOOSE e \in ends : \A k \in ends : e <= k

\* var\s+<word>\s*=\s*\{([\s\S]*?)\n\s*\} at position i: [ok, body]
BlockMatchAt(t, word, i) ==
  LET b == SpaceEnd(t, i + 3)
      c == SpaceEnd(t, b + Len(word))
      d == SpaceEnd(t, c + 1)
  IN  IF /\ StartsAt(t, <<"v","a","r">>, i)
         /\ b > i + 3
         /\ StartsAt(t, word, b)
         /\ c <= Len(t) /\ t[c] = "="
         /\ d <= Len(t) /\ t[d] = "{"
         /\ BlockEnd(t, d + 1) # 0
      THEN [ok |-> TRUE, body |-> SubSeq(t, d + 1, BlockEnd(t, d + 1) - 1)]
      ELSE [ok |-> FALSE, body |-> <<>>]

\* source.match(...): the leftmost match
BlockMatch(t, word) ==
  LET starts == { i \in 1..Len(t) : BlockMatchAt(t, word, i).ok }
  IN  IF starts = {} THEN [ok |-> FALSE, body |-> <<>>]
      ELSE BlockMatchAt(t, word, CHOOSE i \in starts : \A k \in starts : i <= k)

\* type\s*:\s*['"]([^'"]*)['"] at position k: [ok, type, end]
TypeAt(t, k) ==
  LET d == SpaceEnd(t, k + 4)
      e == SpaceEnd(t, d + 1)
      f == NonQuoteEnd(t, e + 1)
  IN  IF /\ StartsAt(t, SType, k)
         /\ d <= Len(t) /\ t[d] = ":"
         /\ e <= Len(t) /\ t[e] \in QuoteMarks
         /\ f <= Len(t)
      THEN [ok |-> TRUE, type |-> SubSeq(t, e + 1, f - 1), end |-> f]
      ELSE [ok |-> FALSE, type |-> <<>>, end |-> 0]

\* [^}]* from position i, greedy: the positions it may stop before
RECURSIVE NonBraceEnd(_, _)
NonBraceEnd(t, i) ==
  IF i <= Len(t) /\ t[i] # "}" THEN NonBraceEnd(t, i + 1) ELSE i

\* (\w+)\s*:\s*\{[^}]*type\s*:\s*['"]([^'"]*)['"] at position q: [ok, key,
\* type, end]; the greedy [^}]* leaves the last type it can reach
PortMatchAt(t, q) ==
  LET a == WordEnd(t, q)
      b == SpaceEnd(t, a)
      c == SpaceEnd(t, b + 1)
      stops == { k \in (c + 1)..NonBraceEnd(t, c + 1) : TypeAt(t, k).ok }
      last == CHOOSE k \in stops : \A j \in stops : j <= k
  IN  IF /\ a > q
         /\ b <= Len(t) /\ t[b] = ":"
         /\ c <= Len(t) /\ t[c] = "{"
         /\ stops # {}
      THEN [ok |-> TRUE, key |-> SubSeq(t, q, a - 1), type |-> TypeAt(t, last).type,
            end |-> TypeAt(t, last).end]
      ELSE [ok |-> FALSE, key |-> <<>>, type |-> <<>>, end |-> 0]

\* for (const m of body.matchAll(...)) ports[m[1]] = { type: m[2] }: the
\* matches from position q on, each the leftmost after the one before
RECURSIVE PortMatches(_, _, _)
PortMatches(t, q, ports) ==
  LET starts == { k \in q..Len(t) : PortMatchAt(t, k).ok }
      m == PortMatchAt(t, CHOOSE k \in starts : \A j \in starts : k <= j)
  IN  IF starts = {} THEN ports
      ELSE PortMatches(t, m.end + 1,
                       SetProp(ports, m.key, VObj(<< Prop(SType, VStr(m.type)) >>)))

BlockPorts(source, word) ==
  IF BlockMatch(source, word).ok
  THEN VObj(PortMatches(BlockMatch(source, word).body, 1, <<>>))
  ELSE VObj(<<>>)

\* extractWithRegex(source)
ExtractWithRegex(source) ==
  [name |-> IF NameMatch(source).ok THEN VStr(NameMatch(source).name)
            ELSE VStr(SUnknown),
   inputs |-> BlockPorts(source, SInputs),
   outputs |-> BlockPorts(source, SOutputs)]

\* the Object.entries loop without the || '' default
PortTypesDeclared(ports) ==
  IF ~Truthy(ports) \/ ports.t # "obj" THEN [threw |-> FALSE, ports |-> VObj(<<>>)]
  ELSE [threw |-> \E i \in 1..Len(ports.kv) : ports.kv[i].v.t \in {"null", "undef"},
        ports |-> VObj([i \in 1..Len(ports.kv) |->
                          Prop(ports.kv[i].k,
                               VObj(<< Prop(SType, Member(ports.kv[i].v, SType)) >>))])]

\* for (const [k, v] of Object.entries(ports)) out[k] = { type: v.type || '' },
\* for a plain object ports; threw: some v is null or undefined
PortTypes(ports) ==
  IF ~Truthy(ports) \/ ports.t # "obj" THEN [threw |-> FALSE, ports |-> VObj(<<>>)]
  ELSE [threw |-> \E i \in 1..Len(ports.kv) : ports.kv[i].v.t \in {"null", "undef"},
        ports |-> VObj([i \in 1..Len(ports.kv) |->
                          Prop(ports.kv[i].k,
                               VObj(<< Prop(SType,
                                            IF Truthy(Member(ports.kv[i].v, SType))
                                            THEN Member(ports.kv[i].v, SType)
                                            ELSE VStr(<<>>)) >>))])]

\* the try block of getModuleInfo on what extractWithVm returned or threw:
\* result.name of undefined or null is a TypeError
Structural(vm) ==
  IF vm.threw \/ vm.result.t \in {"null", "undef"}
  THEN [threw |-> TRUE, name |-> VUndef, inputs |-> VObj(<<>>), outputs |-> VObj(<<>>)]
  ELSE [threw |-> PortTypes(Member(vm.result, SInputs)).threw
                    \/ PortTypes(Member(vm.result, SOutputs)).threw,
        name |-> Member(vm.result, SName),
        inputs |-> PortTypes(Member(vm.result, SInputs)).ports,
        outputs |-> PortTypes(Member(vm.result, SOutputs)).ports]

\* the record getModuleInfo returns for a strategy's result
ModuleInfo(modulePath, includeSource, source, parsed, parseMethod) ==
  [threw |-> FALSE, error |-> "", name |-> parsed.name, path |-> modulePath,
   inputs |-> parsed.inputs, outputs |-> parsed.outputs,
   parseMethod |-> parseMethod,
   source |-> IF includeSource THEN VStr(source) ELSE VUndef]

\* getModuleInfo after readFile: the try block, and its catch (extractWithRegex
\* raises nothing on a text, so the 'failed' record is never built)
Strategy(modulePath, includeSource, source, vm) ==
  IF ~Structural(vm).threw
  THEN ModuleInfo(modulePath, includeSource, source, Structural(vm), "vm")
  ELSE ModuleInfo(modulePath, includeSource, source, ExtractWithRegex(source), "regex")

\* getModuleInfo(modulePath, includeSource); source: the text of the file,
\* if there is one (readFile rejects otherwise, and so does the call)
GetModuleInfo(modulePath, includeSource, source) ==
  IF ~Readable(modulePath)
  THEN [threw |-> TRUE, error |-> "ENOENT", name |-> VUndef, path |-> modulePath,
        inputs |-> VObj(<<>>), outputs |-> VObj(<<>>), parseMethod |-> "",
        source |-> VUndef]
  ELSE Strategy(modulePath, includeSource, source, ExtractWithVm(source))

GetModuleInfoTool ==
  /\ request.tool = "none"
  /\ \E path \in {PathA, PathX}, include_source \in BOOLEAN, source \in InfoTexts :
       /\ request' = [tool |-> "get_module_info", path |-> path,
                      include_source |-> include_source,
                      source |-> IF Readable(path) THEN source ELSE <<>>]
       /\ response' = GetModuleInfo(path, include_source, source)
  /\ UNCHANGED <<launched, handlers, loadedProgram, page, downloads, saved, programJson>>

NextInfo == GetModuleInfoTool

SpecInfo == InitIdle /\ [][NextInfo]_vars

\* the evaluation of the module text yielded an object
YieldsObject(source) ==
  ~ExtractWithVm(source).threw /\ ExtractWithVm(source).result.t = "obj"

\* C20: getModuleInfo reports the pattern strategy exactly when the structural
\* strategy raised an exception, which includes every module text whose
\* evaluation yields no object; the method is that of the strategy whose
\* result is returned, the pattern strategy returns the declared name
\* (var name = "foo" gives "foo"), and a readable module is never a failure.
C20_FallbackIffNoObject ==
  (request.tool = "get_module_info" /\ ~response.threw) =>
    /\ response.parseMethod \in {"vm", "regex"}
    /\ (response.parseMethod = "regex") <=>
         (Structural(ExtractWithVm(request.source)).threw
            \/ ~YieldsObject(request.source))
    /\ response.parseMethod = "vm" =>
         response.name = Structural(ExtractWithVm(request.source)).name
    /\ response.parseMethod = "regex" =>
         /\ response.name = ExtractWithRegex(request.source).name
         /\ NameMatch(request.source).ok =>
              response.name = VStr(NameMatch(request.source).name)

\* C21: getModuleInfo never throws past its boundary, whatever the module path
\* and the source text: every get_module_info call returns a record, produced
\* by the structural or the pattern strategy or carrying an error and the
\* method "failed".
C21_NeverThrows ==
  request.tool = "get_module_info" =>
    /\ ~response.threw
    /\ response.parseMethod \in {"vm", "regex", "failed"}

\* the ports an evaluated definition declares under key, in declaration order
Declared(source, key) ==
  IF Member(ExtractWithVm(source).result, key).t = "obj"
  THEN Member(ExtractWithVm(source).result, key).kv
  ELSE <<>>

\* the definition evaluates without exception to an object whose ports are objects
Evaluates(source) ==
  /\ YieldsObject(source)
  /\ \A key \in {SInputs, SOutputs} :
       \A i \in 1..Len(Declared(source, key)) : Declared(source, key)[i].v.t = "obj"

\* reported lists exactly the declared ports, in order, each with its declared
\* type or the empty string
AsDeclared(reported, declared) ==
  /\ reported.t = "obj"
  /\ Len(reported.kv) = Len(declared)
  /\ \A i \in 1..Len(declared) :
       /\ reported.kv[i].k = declared[i].k
       /\ reported.kv[i].v =
            VObj(<< Prop(SType, IF HasOwn(declared[i].v.kv, SType)
                                THEN Member(declared[i].v, SType)
                                ELSE VStr(<<>>)) >>)

\* C22: for a module whose definition evaluates without exception to an object
\* declaring a name, inputs and outputs, getModuleInfo returns that name, exactly
\* the declared ports of each kind in declaration order, each with its declared
\* type (the empty string when it declares none), and the structural method.
C22_StructuralPorts ==
  (request.tool = "get_module_info" /\ ~response.threw /\ Evaluates(request.source)) =>
    /\ response.parseMethod = "vm"
    /\ response.name = Member(ExtractWithVm(request.source).result, SName)
    /\ AsDeclared(response.inputs, Declared(request.source, SInputs))
    /\ AsDeclared(response.outputs, Declared(request.source, SOutputs))

\* a module declaring the name s and two outputs, one with a type and one without
C22_Witness ==
  /\ request.tool = "get_module_info" /\ ~response.threw
  /\ Evaluates(request.source)
  /\ response.name = VStr(<<"s">>)
  /\ Len(Declared(request.source, SOutputs)) = 2
  /\ response.outputs.kv[1].v = VObj(<< Prop(SType, VStr(<<"f">>)) >>)
  /\ response.outputs.kv[2].v = VObj(<< Prop(SType, VStr(<<>>)) >>)

(***************************************************************************)
(* Properties of the connection records of getProgramState                 *)
(***************************************************************************)
\* the overlay entries of the page that parse, in overlay order
ParsedEntries ==
  SelectSeq(page.links, LAMBDA linkId : linkId # <<>> /\ LinkEnds(linkId).ok)

\* the ends of the parsed entries that leave the module id / that reach it
Leaving(id) ==
  SelectSeq(ParsedEntries,
            LAMBDA linkId : ToStr(Member(LinkEnds(linkId).source, SId)) = id)

Reaching(id) ==
  SelectSeq(ParsedEntries,
            LAMBDA linkId : ToStr(Member(LinkEnds(linkId).dest, SId)) = id)

\* the port descriptor of an entry: the source port, the arrow, the dest port
Descriptor(linkId) ==
  ToStr(Member(LinkEnds(linkId).source, SName)) \o SArrow
    \o ToStr(Member(LinkEnds(linkId).dest, SName))

\* the number of records of a list that name the peer id under the descriptor
RecordsFor(records, peerId, port) ==
  Cardinality({ r \in 1..Len(records) :
                  ToStr(records[r].peerId) = peerId /\ records[r].port = port })

\* C23: every overlay entry that parses contributes exactly one record to
\* connectedTo of the module with the source id (peer id: the dest id) and one
\* to connectedFrom of the module with the dest id (peer id: the source id),
\* both with the descriptor source port -> dest port, in overlay order;
\* duplicates, fan-in, fan-out and self-links are kept.  So A.connectedTo holds
\* k records for B under a descriptor iff B.connectedFrom holds k for A.
C23_OneRecordPerEnd ==
  Read =>
    /\ \A m \in 1..Len(response.state) :
         LET entry == response.state[m]
         IN  /\ Len(entry.connectedTo) = Len(Leaving(entry.id))
             /\ \A r \in 1..Len(entry.connectedTo) :
                  /\ entry.connectedTo[r].peerId =
                       Member(LinkEnds(Leaving(entry.id)[r]).dest, SId)
                  /\ entry.connectedTo[r].port = Descriptor(Leaving(entry.id)[r])
             /\ Len(entry.connectedFrom) = Len(Reaching(entry.id))
             /\ \A r \in 1..Len(entry.connectedFrom) :
                  /\ entry.connectedFrom[r].peerId =
                       Member(LinkEnds(Reaching(entry.id)[r]).source, SId)
                  /\ entry.connectedFrom[r].port = Descriptor(Reaching(entry.id)[r])
    /\ \A a, b \in 1..Len(response.state) :
         \A l \in 1..Len(ParsedEntries) :
           RecordsFor(response.state[a].connectedTo, response.state[b].id,
                      Descriptor(ParsedEntries[l]))
             = RecordsFor(response.state[b].connectedFrom, response.state[a].id,
                          Descriptor(ParsedEntries[l]))

\* the self-link 0.1 -> 0.1 stands before the link 0.1 -> 0.2: module 0.1 lists
\* two outgoing records and its own id as the peer of the incoming one
C23_Witness ==
  /\ Read
  /\ LiveIds = {Id1, Id2}
  /\ Len(response.state[EntryOf(Id1)].connectedTo) = 2
  /\ response.state[EntryOf(Id1)].connectedTo[1].peerId = VStr(Id1)
  /\ response.state[EntryOf(Id1)].connectedTo[2].peerId = VStr(Id2)
  /\ Len(response.state[EntryOf(Id1)].connectedFrom) = 1
  /\ response.state[EntryOf(Id1)].connectedFrom[1].peerId = VStr(Id1)
  /\ Len(response.state[EntryOf(Id2)].connectedFrom) = 1

\* the page without its overlay entry l
WithoutEntry(pg, l) ==
  [pg EXCEPT !.links = SubSeq(pg.links, 1, l - 1) \o SubSeq(pg.links, l + 1, Len(pg.links))]

\* C24: an overlay entry that getProgramState skips as unparseable (an entry
\* whose dest decodes to null included) leaves no trace: the snapshot equals
\* the snapshot of the same page without the entry, so no module gains
\* connectedFrom and connectedTo because of it.
C24_SkippedLeavesNoTrace ==
  Read =>
    \A l \in 1..Len(page.links) :
      (page.links[l] # <<>> /\ ~LinkEnds(page.links[l]).ok) =>
        response.state = GetProgramState(WithoutEntry(page, l))

(***************************************************************************)
(* Properties of the names createProgram resolves links with               *)
(***************************************************************************)
\* the name getModuleInfo reports for module j of the create_program call
IntrospectedName(j) ==
  ToStr(GetModuleInfo(request.modulePaths[j], FALSE,
                      FileText(request.modulePaths[j])).name)

\* createProgram on the modules of the call with one link between two ports
\* of the module named n
LinkedByName(n) ==
  CreateProgram(request.modulePaths,
                << Link(n \o <<".","o">>, n \o <<".","i">>) >>, request.rnd)

\* C25: createProgram resolves links with the declared name getModuleInfo
\* reports for the same source: for every module of a build, a link that names
\* the module's introspected name resolves, and to the id of a module of the
\* build with that introspected name.
C25_ResolvesIntrospectedName ==
  (Created /\ ReadableCall) =>
    \A j \in 1..Len(request.modulePaths) :
      /\ LinkedByName(IntrospectedName(j)).ok
      /\ \E k \in 1..Len(request.modulePaths) :
           /\ IntrospectedName(k) = IntrospectedName(j)
           /\ Member(DecodedEnd(Member(LinkedByName(IntrospectedName(j)).doc, SLinks).kv[1].v,
                                SSource), SId) = VStr(request.rnd[k])

\* the last module of the call, in modulePaths order, that declares the name
\* of the link end text
LastDeclaring(text) ==
  CHOOSE j \in Declaring(NamedModule(text)) :
    \A k \in Declaring(NamedModule(text)) : k <= j

\* the ids the links of the document name as source or dest
EndpointIds ==
  { Member(DecodedEnd(DocLinks[i].v, field), SId) :
      i \in 1..Len(DocLinks), field \in {SSource, SDest} }

\* the link ends of the call
LinkEndTexts ==
  { request.links[i].from : i \in 1..Len(request.links) }
    \cup { request.links[i].to : i \in 1..Len(request.links) }

\* C26: when several modules of one createProgram call declare the same name,
\* every link that names it is encoded with the id of the last such module in
\* modulePaths order; the earlier modules of that name are still present in
\* modules, and their ids are the endpoint of no link.
C26_LastDeclarationWins ==
  (Created /\ ~response.isError) =>
    /\ \A i \in 1..Len(request.links) :
         /\ Resolvable(request.links[i].from) =>
              Member(DecodedEnd(DocLinks[i].v, SSource), SId)
                = VStr(request.rnd[LastDeclaring(request.links[i].from)])
         /\ Resolvable(request.links[i].to) =>
              Member(DecodedEnd(DocLinks[i].v, SDest), SId)
                = VStr(request.rnd[LastDeclaring(request.links[i].to)])
    /\ \A text \in LinkEndTexts :
         \A j \in Declaring(NamedModule(text)) :
           j # LastDeclaring(text) =>
             /\ HasOwn(DocModules, request.rnd[j])
             /\ VStr(request.rnd[j]) \notin EndpointIds

(***************************************************************************)
(* Properties of a trigger_action whose module reference does not resolve  *)
(***************************************************************************)
\* C27: a trigger_action call that fails to resolve its module reference
\* clicks nothing and leaves the captured-downloads buffer unchanged, so a
\* download captured by an earlier action is still what a following
\* export_file returns.
C27_FailedTriggerKeepsDownloads ==
  [][ (TriggerActionClear /\ response'.isError) =>
        /\ response'.events = <<>>
        /\ downloads' = downloads
        /\ ExportFile(downloads') = ExportFile(downloads) ]_vars

(***************************************************************************)
(* A session (server.js, browser.js): launch_browser, load_program,        *)
(* switch_branch, get_server_status and get_program_state called one after *)
(* the other.  The environment decides whether Chromium starts             *)
(* (chromiumOk), whether a navigation succeeds (gotoOk), whether the host  *)
(* defines its entry point in time (entry) and whether git succeeds        *)
(* (gitOk).                                                                *)
(***************************************************************************)
\* launch(port, headless): browser and page are assigned before the
\* navigation and the wait for the entry point, and nothing resets them
\* when one of the two rejects
Launch(chromiumOk, gotoOk, entry) ==
  IF ~chromiumOk
  THEN [threw |-> TRUE, error |-> "LaunchFailed", launched |-> FALSE, opened |-> FALSE]
  ELSE IF ~gotoOk
  THEN [threw |-> TRUE, error |-> "NavigationFailed", launched |-> TRUE, opened |-> FALSE]
  ELSE IF ~entry
  THEN [threw |-> TRUE, error |-> "Timeout", launched |-> TRUE, opened |-> TRUE]
  ELSE [threw |-> FALSE, error |-> "", launched |-> TRUE, opened |-> TRUE]

\* the launch_browser tool
LaunchBrowserTool ==
  \E chromiumOk \in BOOLEAN, gotoOk \in BOOLEAN, entry \in BOOLEAN :
    LET result == Launch(chromiumOk, gotoOk, entry)
    IN  /\ request' = [tool |-> "launch_browser", chromiumOk |-> chromiumOk,
                       gotoOk |-> gotoOk, entry |-> entry]
        /\ IF launched
           THEN /\ response' = [tool |-> "launch_browser", isError |-> FALSE,
                                error |-> "", text |-> "AlreadyRunning"]
                /\ UNCHANGED <<launched, page>>
           ELSE /\ response' = [tool |-> "launch_browser", isError |-> result.threw,
                                error |-> result.error,
                                text |-> IF result.threw THEN "LaunchFailed"
                                         ELSE "Launched"]
                /\ launched' = result.launched
                /\ page' = EmptyPage
        /\ UNCHANGED <<handlers, loadedProgram, downloads, saved, programJson>>

\* the switch_branch tool: with list it only reads the branches; otherwise it
\* checks the branch out and navigates a launched browser to the base URL
SwitchBranchTool ==
  \E list \in BOOLEAN, gitOk \in BOOLEAN, gotoOk \in BOOLEAN :
    /\ request' = [tool |-> "switch_branch", list |-> list, gitOk |-> gitOk,
                   gotoOk |-> gotoOk]
    /\ response' = [tool |-> "switch_branch",
                    isError |-> ~gitOk \/ (~list /\ launched /\ ~gotoOk),
                    switched |-> ~list /\ gitOk /\ (launched => gotoOk),
                    reloaded |-> ~list /\ gitOk /\ launched /\ gotoOk]
    /\ page' = IF ~list /\ gitOk /\ launched /\ gotoOk THEN EmptyPage ELSE page
    /\ UNCHANGED <<launched, handlers, loadedProgram, downloads, saved, programJson>>

\* the get_server_status tool
GetServerStatusTool ==
  /\ request.tool # "get_server_status"
  /\ request' = [tool |-> "get_server_status"]
  /\ response' = [tool |-> "get_server_status", isError |-> FALSE,
                  browser |-> IF launched THEN "connected" ELSE "not launched",
                  loadedProgram |-> IF Truthy(loadedProgram) THEN ToStr(loadedProgram)
                                    ELSE <<"n","o","n","e">>,
                  counted |-> launched /\ Truthy(loadedProgram),
                  moduleCount |-> IF launched /\ Truthy(loadedProgram)
                                  THEN Len(GetProgramState(page)) ELSE 0]
  /\ UNCHANGED <<launched, handlers, loadedProgram, page, downloads, saved, programJson>>

NextSession ==
  \/ LaunchBrowserTool
  \/ LoadProgramCall
  \/ SwitchBranchTool
  \/ GetServerStatusTool
  \/ GetProgramStateTool

SpecSession == InitIdle /\ [][NextSession]_vars

(***************************************************************************)
(* Properties of a session                                                 *)
(***************************************************************************)
\* C28: whenever loadedProgram is set, the page shows the program it names
\* (the last successful load_program path or the last injected custom
\* program); step by step: a load_program that navigated the page leaves
\* loadedProgram unset or naming the path it navigated to, also when it timed
\* out, and a switch_branch that reloaded the page to the base URL leaves no
\* loaded program reported.
C28_LoadedProgramIsShown ==
  [][ /\ (LoadProgramCall /\ launched /\ request'.gotoOk) =>
           (Truthy(loadedProgram') => loadedProgram' = VStr(request'.path))
      /\ (SwitchBranchTool /\ response'.reloaded) => ~Truthy(loadedProgram') ]_vars

\* C29: isLaunched() is true only if a launch() ran to completion (page
\* opened, entry point observed); after a launch() that failed in the
\* navigation or in the wait for the entry point isLaunched() is false, and
\* the launch_browser call that follows launches again instead of answering
\* that the browser is already running.
C29_LaunchedOnlyWhenComplete ==
  [][ LaunchBrowserTool =>
        /\ (~launched /\ response'.isError) => ~launched'
        /\ (response.tool = "launch_browser" /\ response.isError) =>
             response'.text # "AlreadyRunning" ]_vars

(***************************************************************************)
(* Properties of setting a parameter and reading it back                   *)
(***************************************************************************)
\* setModuleInput has just succeeded on a control that is no checkbox
SetPlain ==
  /\ request.tool = "setModuleInput"
  /\ ~response.threw /\ response.error = "" /\ response.type = VUndef

\* the parameters getProgramState lists for the module of the call
ListedParams ==
  LET state == GetProgramState(page)
  IN  state[CHOOSE m \in 1..Len(state) : state[m].id = request.moduleId].params

\* the first listed parameter whose label contains the label of the call
FirstListed ==
  ListedParams[CHOOSE k \in 1..Len(ListedParams) :
                 /\ Includes(ListedParams[k].label, request.paramName)
                 /\ \A j \in 1..(k - 1) :
                      ~Includes(ListedParams[j].label, request.paramName)]

\* C30: after setModuleInput(m, label, v) succeeded on a control that is no
\* checkbox, the first parameter of m that getProgramState lists with a label
\* containing label has the value v, readModuleInput(m, label) returns v, and
\* the label setModuleInput reported is the label getProgramState reports.
C30_SetThenRead ==
  SetPlain =>
    /\ FirstListed.value = request.value
    /\ ReadModuleInput(page, request.moduleId, request.paramName).value = request.value
    /\ response.label = FirstListed.label
====
